---- MODULE Spec2Model ----
(***************************************************************************)
(* AutoAvatar: voice-cloning / audio-capture pipeline and its              *)
(* collaborators (src/utils/voice_cloner.py, src/utils/tts_engine.py,      *)
(* src/utils/script_generator.py, the voice tab of src/app.py), the API    *)
(* key configuration (src/utils/config_manager.py, src/utils/api_key_ui.py,*)
(* src/config.py), src/video_generator.py and the subtitles of             *)
(* src/utils/video_composer.py.                                            *)
(*                                                                         *)
(* Units.  Durations are kept in milliseconds (pydub's len(chunk)); the    *)
(* code divides by 1000.0 and compares with min_duration/max_duration in   *)
(* seconds, the model compares milliseconds with milliseconds.  RMS and    *)
(* peak are in tenths of full scale, quality scores in hundredths.         *)
(***************************************************************************)
EXTENDS Integers, Sequences, FiniteSets, TLC

\* ------------------------------------------------------------------ bounds
\* longest list of chunks split_on_silence hands back
MaxChunks == 12
\* the chunk list is a pattern of this many chunk kinds, repeated
PatLen == 3
\* the speech-to-text outcomes are a pattern of this many outcomes, repeated
TransPatLen == 2
\* most devices the host audio subsystem lists
MaxDevices == 3
\* longest recording asked for, in seconds
MaxDuration == 3
\* longest target duration of a script, in units of 30 seconds
MaxScriptUnits == 2

\* ---------------------------------------------------------- small helpers
None == "None"

Min(a, b) == IF a <= b THEN a ELSE b

Range(s) == {s[i] : i \in 1..Len(s)}

\* s[:n] of Python for 0 <= n
Take(s, n) == SubSeq(s, 1, Min(n, Len(s)))

VARIABLES
  \* ---- VoiceCloner.create_voice_samples
  cvs_pc,          \* "call" | "done"
  whisper_model,   \* self.whisper_model: None | "base"
  chunks,          \* what split_on_silence returned
  min_duration,    \* ms
  max_duration,    \* ms
  fault,           \* environment: "none" | "load" (librosa / pydub raise)
  stt,             \* environment: outcome of whisper_model.transcribe per path
  valid_samples,   \* local of create_voice_samples
  output_dir,      \* the files of the directory output_dir
  result,          \* the returned dictionary
  \* ---- VoiceCloner.get_available_microphones
  mic_pc,          \* "idle" | "call" | "done"
  devices,         \* the host's device table, by index
  mic_fault,       \* environment: where the host audio subsystem fails
  microphones,     \* the returned list
  \* ---- TTSEngine.generate_speech
  tts_pc,                  \* "idle" | "call" | "done"
  elevenlabs_available,    \* self.elevenlabs_available
  azure_available,         \* self.azure_available
  voice_cloner_available,  \* self.voice_cloner_available
  voice_provider,          \* argument
  voice_samples_dir,       \* argument: None | "" | "dir"
  backend,                 \* environment: what each backend does when called
  tts_calls,               \* the backends invoked, in order
  tts_result,              \* the returned boolean (None before the return)
  \* ---- ScriptGenerator.generate_news_script
  sg_pc,             \* "idle" | "ready" | "done"
  topic,             \* argument
  duration_seconds,  \* argument
  style,             \* argument
  api,               \* environment: what chat.completions.create did
  script,            \* the returned text
  fallback_seen,     \* history: by topic, the text returned on the first API
                     \* failure and the target_words of that call
  \* ---- VoiceCloner.record_voice_from_microphone / test_microphone
  rec_pc,        \* "idle" | "start" | "reading" | "released" | "done"
  rec_op,        \* "record" | "test"
  rec_duration,  \* seconds
  rec_fault,     \* environment: the call that raises
  pa,            \* the PyAudio instance p: "none" | "live" | "terminated"
  stream,        \* the input stream: "none" | "open" | "closed"
  frames,        \* len(frames)
  rec_result,    \* the returned dictionary
  \* ---- VoiceCloner._assess_chunk_quality / _assess_audio_quality
  q_pc,        \* "idle" | "call" | "done"
  q_op,        \* "chunk" | "audio"
  q_chunk,     \* argument of _assess_chunk_quality: its rms and peak
  q_snr,       \* local snr of _assess_audio_quality
  q_centroid,  \* local spectral_centroid of _assess_audio_quality, in Hz
  q_score,     \* the returned score
  \* ---- VoiceCloner.extract_voice_from_audio / _process_audio_file
  pp_pc,       \* "idle" | "call" | "done"
  pp_input,    \* the audio file: its length and whether it is all silence
  pp_lib,      \* environment: what librosa and soundfile do with it
  pp_written,  \* length of the waveform written to output_path, -1 if none
  pp_result,   \* the returned dictionary
  \* ---- the Level Monitor behind start_audio_monitoring,
  \*      stop_audio_monitoring and get_current_audio_level
  monitor,     \* the monitor's state: active, gain, device, published level
  last_call,   \* the last start / stop call and its outcome
  got,         \* what the last get_current_audio_level call returned
  \* ---- the voice tab of app.py
  ss,          \* st.session_state
  widgets,     \* what the user has set on the gain slider and the selectbox
  shown,       \* the level the tab displays
  elapsed,     \* time.time() - recording_start_time, in ticks
  \* ---- VoiceCloner.clone_voice_with_text
  cl_pc,              \* "idle" | "call" | "done"
  cl_dir,             \* the files os.listdir(voice_samples_dir) returns
  cl_lib,             \* environment: the library call that raises, if any
  reference_samples,  \* local: the files loaded as reference samples
  cl_written,         \* whether sf.write(output_path, ...) has run
  cl_result,          \* the returned dictionary
  \* ---- TTSEngine.__init__ / get_available_providers
  pv_pc,       \* "idle" | "new" | "built" | "done"
  pv_env,      \* the configured keys and what the imports found
  engine,      \* the TTSEngine instance: None, or its three flags
  providers,   \* the returned list
  \* ---- ConfigManager, Config and the key setup UI
  session_state,   \* st.session_state, by key name
  session_config,  \* self.session_config, by key name
  config_file,     \* user_config.json: "missing" | "corrupt" | its content
  environ,         \* os.environ, by key name
  config_keys,     \* the class attributes of Config
  cm_ops,          \* operations carried out so far
  cm_ret,          \* the last call and what it returned
  \* ---- VideoGenerator.generate_video
  vg_pc,       \* "idle" | "validate" | "script" | "voiceover" | "compose" | "done"
  vg_in,       \* arguments: whether image_path exists, the news topic
  vg_env,      \* environment: what each collaborator call does
  vg_calls,    \* the collaborator calls made, in order
  vg_result,   \* the returned dictionary
  \* ---- VideoComposer._create_subtitle_clips
  sub_pc,        \* "idle" | "call" | "done"
  sub_text,      \* argument text: a list of tokens
  sub_duration,  \* argument duration, in half seconds
  sub_result     \* the returned list of segments, or the exception raised

cvs_vars == <<cvs_pc, whisper_model, chunks, min_duration, max_duration,
              fault, stt, valid_samples, output_dir, result>>

mic_vars == <<mic_pc, devices, mic_fault, microphones>>

tts_vars == <<tts_pc, elevenlabs_available, azure_available,
              voice_cloner_available, voice_provider, voice_samples_dir,
              backend, tts_calls, tts_result>>

sg_vars == <<sg_pc, topic, duration_seconds, style, api, script, fallback_seen>>

rec_vars == <<rec_pc, rec_op, rec_duration, rec_fault, pa, stream, frames,
              rec_result>>

q_vars == <<q_pc, q_op, q_chunk, q_snr, q_centroid, q_score>>

pp_vars == <<pp_pc, pp_input, pp_lib, pp_written, pp_result>>

mon_vars == <<monitor, last_call, got>>

ui_vars == <<ss, widgets, shown, elapsed>>

cl_vars == <<cl_pc, cl_dir, cl_lib, reference_samples, cl_written, cl_result>>

pv_vars == <<pv_pc, pv_env, engine, providers>>

cm_vars == <<session_state, session_config, config_file, environ, config_keys,
             cm_ops, cm_ret>>

vg_vars == <<vg_pc, vg_in, vg_env, vg_calls, vg_result>>

sub_vars == <<sub_pc, sub_text, sub_duration, sub_result>>

vars == <<cvs_vars, mic_vars, tts_vars, sg_vars, rec_vars, q_vars, pp_vars,
          mon_vars, ui_vars, cl_vars, pv_vars, cm_vars, vg_vars, sub_vars>>

\* =====================================================================
\* VoiceCloner.create_voice_samples
\* =====================================================================

\* the cap of the slice valid_samples[:min(10, len(valid_samples))]
Cap == 10

\* A chunk of audio: its length (ms) and the level of its samples.
\* Kinds around the default limits 3.0 s and 10.0 s.
ChunkKinds ==
  { [len |-> 2999,  rms |-> 2, peak |-> 10],
    [len |-> 3000,  rms |-> 1, peak |-> 2],
    [len |-> 5000,  rms |-> 1, peak |-> 5],
    [len |-> 10000, rms |-> 3, peak |-> 10],
    [len |-> 10001, rms |-> 2, peak |-> 10],
    [len |-> 5000,  rms |-> 0, peak |-> 0] }

\* the lists of chunks: a pattern of PatLen kinds repeated up to n chunks,
\* for the short lists and for the longest one
ChunkLists ==
  { [i \in 1..n |-> pat[((i - 1) % PatLen) + 1]] :
      n \in 0..PatLen \cup {MaxChunks}, pat \in [1..PatLen -> ChunkKinds] }

\* (min_duration, max_duration) in ms: the defaults, and a single length
DurationLimits == { <<3000, 10000>>, <<5000, 5000>> }

\* what whisper_model.transcribe does on one file
SttOutcomes ==
  { [kind |-> "raise", text |-> <<>>, has_confidence |-> FALSE, confidence |-> 0],
    [kind |-> "ok", text |-> <<" ", "h", "i", " ">>,
     has_confidence |-> FALSE, confidence |-> 0],
    [kind |-> "ok", text |-> <<"h", "i">>,
     has_confidence |-> TRUE, confidence |-> 9] }

SttPatterns == [0..(TransPatLen - 1) -> SttOutcomes]

\* str.strip() on a list of characters
RECURSIVE LStrip(_)
LStrip(s) == IF s # <<>> /\ Head(s) = " " THEN LStrip(Tail(s)) ELSE s

RECURSIVE RStrip(_)
RStrip(s) ==
  IF s # <<>> /\ s[Len(s)] = " " THEN RStrip(SubSeq(s, 1, Len(s) - 1)) ELSE s

Strip(s) == RStrip(LStrip(s))

\* quality = min(1.0, rms * 5.0) * min(1.0, peak * 2.0), in hundredths
_assess_chunk_quality(chunk) == Min(10, chunk.rms * 5) * Min(10, chunk.peak * 2)

\* (mutant) the filter without its upper limit
DurationOk_NoUpper(duration, lo, hi) == lo <= duration

\* the test of the filter loop
DurationOk(duration, lo, hi) == lo <= duration /\ duration <= hi

\* for i, chunk in enumerate(chunks): keep the chunks that pass the filter.
\* path stands for the file sample_{i:03d}.wav, i the 0-based index.
RECURSIVE FilterSamples(_, _, _, _)
FilterSamples(cs, i, lo, hi) ==
  IF i > Len(cs) THEN <<>>
  ELSE LET rest == FilterSamples(cs, i + 1, lo, hi)
       IN  IF DurationOk(cs[i].len, lo, hi)
           THEN <<[path |-> i - 1, duration |-> cs[i].len,
                   quality |-> _assess_chunk_quality(cs[i])]>> \o rest
           ELSE rest

\* chunk.export(sample_path, format="wav") for every sample that passed the
\* filter: a file of output_dir is its stem and its extension
ExportedFiles(samples) ==
  {[name |-> samples[k].path, ext |-> "wav"] : k \in 1..Len(samples)}

\* where list.sort puts x in a list already sorted: after every element it
\* does not beat (the sort is stable, and reverse=True keeps the order of
\* equal keys)
\* (mutant) the sort without reverse=True
GoesBefore_Ascending(x, y) == x.quality < y.quality

GoesBefore(x, y) == x.quality > y.quality

RECURSIVE InsertSorted(_, _)
InsertSorted(x, s) ==
  IF s = <<>> THEN <<x>>
  ELSE IF GoesBefore(x, Head(s)) THEN <<x>> \o s
       ELSE <<Head(s)>> \o InsertSorted(x, Tail(s))

\* valid_samples.sort(key=lambda x: x['quality'], reverse=True)
RECURSIVE SortByQuality(_)
SortByQuality(s) ==
  IF s = <<>> THEN <<>>
  ELSE LET front == SortByQuality(SubSeq(s, 1, Len(s) - 1))
       IN  InsertSorted(s[Len(s)], front)

\* (mutant) the slice one too long
BestSamples_OffByOne(sorted) == Take(sorted, Min(Cap + 1, Len(sorted)))

\* best_samples = valid_samples[:min(10, len(valid_samples))]
BestSamples(sorted) == Take(sorted, Min(Cap, Len(sorted)))

\* one pass of the transcription loop body, with its bare except
Transcribe(sample, outcomes) ==
  LET o == outcomes[sample.path % TransPatLen]
  IN  IF o.kind = "raise"
      THEN [path |-> sample.path, text |-> <<>>, confidence |-> 0]
      ELSE [path |-> sample.path, text |-> Strip(o.text),
            confidence |-> IF o.has_confidence THEN o.confidence ELSE 0]

\* (mutant) an except clause that appends nothing
Transcriptions_DropFailed(best, model, outcomes) ==
  IF model = None THEN <<>>
  ELSE LET ok == SelectSeq(best,
                   LAMBDA b : outcomes[b.path % TransPatLen].kind # "raise")
       IN  [k \in 1..Len(ok) |-> Transcribe(ok[k], outcomes)]

\* transcriptions: empty without a model, else one entry per best sample
Transcriptions(best, model, outcomes) ==
  IF model = None THEN <<>>
  ELSE [k \in 1..Len(best) |-> Transcribe(best[k], outcomes)]

\* no call of create_voice_samples in progress
CvsIdle ==
  /\ cvs_pc = "idle"
  /\ whisper_model = None
  /\ chunks = <<>>
  /\ min_duration = 3000
  /\ max_duration = 10000
  /\ fault = "none"
  /\ stt = <<>>
  /\ valid_samples = <<>>
  /\ output_dir = {}
  /\ result = None

CvsInit ==
  /\ cvs_pc = "call"
  /\ whisper_model \in {None, "base"}
  /\ fault \in {"none", "load"}
  /\ chunks \in (IF fault = "load" THEN {<<>>} ELSE ChunkLists)
  /\ \E lim \in DurationLimits : min_duration = lim[1] /\ max_duration = lim[2]
  /\ stt \in (IF whisper_model = None \/ fault = "load"
              THEN {[k \in 0..(TransPatLen - 1) |->
                      [kind |-> "raise", text |-> <<>>,
                       has_confidence |-> FALSE, confidence |-> 0]]}
              ELSE SttPatterns)
  /\ valid_samples = <<>>
  /\ output_dir = {}
  /\ result = None

\* the whole of create_voice_samples: the try body, or the outer except
CreateVoiceSamples ==
  /\ cvs_pc = "call"
  /\ cvs_pc' = "done"
  /\ IF fault = "load"
     THEN /\ valid_samples' = <<>>
          /\ output_dir' = output_dir
          /\ result' = [success |-> FALSE, error |-> "load"]
     ELSE LET sorted == SortByQuality(
                          FilterSamples(chunks, 1, min_duration, max_duration))
              best   == BestSamples(sorted)
          IN  /\ valid_samples' = sorted
              /\ output_dir' = output_dir \cup ExportedFiles(sorted)
              /\ result' = [success |-> TRUE,
                            total_samples |-> Len(sorted),
                            best_samples |-> best,
                            transcriptions |->
                              Transcriptions(best, whisper_model, stt)]
  /\ UNCHANGED <<whisper_model, chunks, min_duration, max_duration, fault, stt>>
  /\ UNCHANGED <<mic_vars, tts_vars, sg_vars, rec_vars,
               q_vars, pp_vars, mon_vars, ui_vars,
               cl_vars, pv_vars, cm_vars, vg_vars, sub_vars>>

CvsNext == CreateVoiceSamples

\* =====================================================================
\* VoiceCloner.get_available_microphones
\* =====================================================================

\* what p.get_device_info_by_index(i) returns
DeviceInfos ==
  [name : {"a", "b"}, maxInputChannels : {0, 1, 2}, defaultSampleRate : {44100}]

DeviceTables == UNION { [1..n -> DeviceInfos] : n \in 0..MaxDevices }

\* the call of the host audio subsystem that raises: none, PyAudio(),
\* get_device_count(), get_device_info_by_index(index) or terminate()
MicFaults(n) ==
  { [at |-> a, index |-> 0] : a \in {"none", "init", "count", "terminate"} }
    \cup { [at |-> "info", index |-> i] : i \in 0..(n - 1) }

\* if device_info['maxInputChannels'] > 0
IsInput(info) == info.maxInputChannels > 0

\* the body of the for loop from index i on: the list collected, or "raised"
\* when get_device_info_by_index raises on the way
RECURSIVE Enumerate(_, _, _, _)
Enumerate(devs, i, flt, acc) ==
  IF i >= Len(devs) THEN [raised |-> FALSE, list |-> acc]
  ELSE IF flt.at = "info" /\ flt.index = i THEN [raised |-> TRUE, list |-> acc]
  ELSE LET info == devs[i + 1]
       IN  Enumerate(devs, i + 1, flt,
             IF IsInput(info)
             THEN Append(acc, [index |-> i, name |-> info.name,
                               channels |-> info.maxInputChannels,
                               sample_rate |-> info.defaultSampleRate])
             ELSE acc)

\* (mutant) an except clause that returns what was collected so far
OnMicError_Partial(collected) == collected

\* except Exception: return []
OnMicError(collected) == <<>>

\* the value get_available_microphones returns
GetMicrophones(devs, flt) ==
  IF flt.at \in {"init", "count"} THEN OnMicError(<<>>)
  ELSE LET e == Enumerate(devs, 0, flt, <<>>)
       IN  IF e.raised \/ flt.at = "terminate" THEN OnMicError(e.list)
           ELSE e.list

MicIdle ==
  /\ mic_pc = "idle"
  /\ devices = <<>>
  /\ mic_fault = [at |-> "none", index |-> 0]
  /\ microphones = <<>>

MicInit ==
  /\ mic_pc = "call"
  /\ devices \in DeviceTables
  /\ mic_fault \in MicFaults(Len(devices))
  /\ microphones = <<>>

GetAvailableMicrophones ==
  /\ mic_pc = "call"
  /\ mic_pc' = "done"
  /\ microphones' = GetMicrophones(devices, mic_fault)
  /\ UNCHANGED <<devices, mic_fault>>
  /\ UNCHANGED <<cvs_vars, tts_vars, sg_vars, rec_vars,
               q_vars, pp_vars, mon_vars, ui_vars,
               cl_vars, pv_vars, cm_vars, vg_vars, sub_vars>>

MicNext == GetAvailableMicrophones

\* =====================================================================
\* TTSEngine.generate_speech
\* =====================================================================

Providers == {"auto", "cloned", "elevenlabs", "azure", "basic"}

\* what the service behind each backend does: "ok" it delivers the audio,
\* "fail" it reports a failure (success False / a reason other than
\* completed), "raise" it raises
BackendOutcomes ==
  [cloned : {"ok", "fail", "raise"}, elevenlabs : {"ok", "raise"},
   azure : {"ok", "fail", "raise"}, basic : {"ok", "raise"}]

\* Python truth of voice_samples_dir
Truthy(dir) == dir # None /\ dir # ""

\* The four _generate_* helpers wrap their body in try/except Exception and
\* return False from the handler: value is what they return, raised whether
\* an exception leaves the helper.
HelperCall(outcome) == [value |-> outcome = "ok", raised |-> FALSE]

\* (mutant) auto selection that prefers Azure to ElevenLabs
AutoSelect_AzureFirst(dir, cloner, eleven, azure) ==
  IF Truthy(dir) /\ cloner THEN "cloned"
  ELSE IF azure THEN "azure"
  ELSE IF eleven THEN "elevenlabs"
  ELSE "return_basic"

\* the if/elif chain under voice_provider == "auto"; "return_basic" is its
\* else branch, which returns _generate_basic_tts at once
AutoSelect(dir, cloner, eleven, azure) ==
  IF Truthy(dir) /\ cloner THEN "cloned"
  ELSE IF eleven THEN "elevenlabs"
  ELSE IF azure THEN "azure"
  ELSE "return_basic"

\* the if/elif chain inside the try: the backend that is called
Dispatch(provider, dir, cloner, eleven, azure) ==
  IF provider = "cloned" /\ Truthy(dir) /\ cloner THEN "cloned"
  ELSE IF provider = "elevenlabs" /\ eleven THEN "elevenlabs"
  ELSE IF provider = "azure" /\ azure THEN "azure"
  ELSE "basic"

\* generate_speech: the backends called, in order, and the value returned
GenerateSpeechRun(provider, dir, cloner, eleven, azure, out) ==
  LET chosen == IF provider = "auto"
                THEN AutoSelect(dir, cloner, eleven, azure)
                ELSE provider
  IN  IF chosen = "return_basic"
      THEN [calls |-> <<"basic">>, value |-> HelperCall(out.basic).value]
      ELSE LET b == Dispatch(chosen, dir, cloner, eleven, azure)
               r == HelperCall(out[b])
           IN  IF r.raised
               THEN [calls |-> <<b, "basic">>,
                     value |-> HelperCall(out.basic).value]
               ELSE [calls |-> <<b>>, value |-> r.value]

TtsIdle ==
  /\ tts_pc = "idle"
  /\ elevenlabs_available = FALSE
  /\ azure_available = FALSE
  /\ voice_cloner_available = TRUE
  /\ voice_provider = "auto"
  /\ voice_samples_dir = None
  /\ backend = [cloned |-> "ok", elevenlabs |-> "ok", azure |-> "ok",
                basic |-> "ok"]
  /\ tts_calls = <<>>
  /\ tts_result = None

\* TTSEngine.__init__ followed by the arguments of one call
TtsInit ==
  /\ tts_pc = "call"
  /\ elevenlabs_available \in BOOLEAN
  /\ azure_available \in BOOLEAN
  /\ voice_cloner_available = TRUE
  /\ voice_provider \in Providers
  /\ voice_samples_dir \in {None, "", "dir"}
  /\ backend \in BackendOutcomes
  /\ tts_calls = <<>>
  /\ tts_result = None

GenerateSpeech ==
  /\ tts_pc = "call"
  /\ tts_pc' = "done"
  /\ LET run == GenerateSpeechRun(voice_provider, voice_samples_dir,
                                  voice_cloner_available, elevenlabs_available,
                                  azure_available, backend)
     IN  /\ tts_calls' = run.calls
         /\ tts_result' = run.value
  /\ UNCHANGED <<elevenlabs_available, azure_available, voice_cloner_available,
                 voice_provider, voice_samples_dir, backend>>
  /\ UNCHANGED <<cvs_vars, mic_vars, sg_vars, rec_vars,
               q_vars, pp_vars, mon_vars, ui_vars,
               cl_vars, pv_vars, cm_vars, vg_vars, sub_vars>>

TtsNext == GenerateSpeech

\* =====================================================================
\* ScriptGenerator.generate_news_script
\* =====================================================================
\* A text is a list of tokens: words, and the characters the code looks at
\* (" ", "\n", brackets, parentheses, the marker "Script:").

Topics == {"AI", "rain"}

Styles == {"professional", "casual", "epic"}

Whitespace == {" ", "\n"}

\* what self.client.chat.completions.create(...) does: it raises, it answers
\* with no content (None), or it answers with a text
ApiOutcomes ==
  { [kind |-> "raise", content |-> <<>>],
    [kind |-> "none", content |-> <<>>],
    [kind |-> "text", content |-> <<>>],
    [kind |-> "text", content |-> <<"news">>],
    [kind |-> "text",
     content |-> <<"Script:", " ", "news", " ", "[", "music", "]", " ", "now">>],
    [kind |-> "text",
     content |-> <<" ", "news", "(", "pause", ")", "\n", "\n", "now", "[", " ">>] }

\* target_words = int((duration_seconds * 155) / 60)
TargetWords(duration) == (duration * 155) \div 60

\* style_prompts.get(style, style_prompts["professional"])
StyleInstruction(st) ==
  IF st \in {"professional", "casual", "dramatic", "modern", "classic"}
  THEN st ELSE "professional"

\* str.strip() with every whitespace character
RECURSIVE StripWs(_)
StripWs(s) ==
  IF s # <<>> /\ Head(s) \in Whitespace THEN StripWs(Tail(s))
  ELSE IF s # <<>> /\ s[Len(s)] \in Whitespace
       THEN StripWs(SubSeq(s, 1, Len(s) - 1))
       ELSE s

\* re.sub(r'^Script:\s*', '', script, flags=re.IGNORECASE)
RECURSIVE DropLeadingWs(_)
DropLeadingWs(s) ==
  IF s # <<>> /\ Head(s) \in Whitespace THEN DropLeadingWs(Tail(s)) ELSE s

DropMarker(s) ==
  IF s # <<>> /\ Head(s) = "Script:" THEN DropLeadingWs(Tail(s)) ELSE s

\* re.sub(r'\[.*?\]', '', script): from an opening token to the nearest
\* closing one, "." not matching a newline
RECURSIVE RemoveSpans(_, _, _)
RemoveSpans(s, open, close) ==
  IF s = <<>> THEN <<>>
  ELSE LET ends == { j \in 2..Len(s) :
                       /\ s[j] = close
                       /\ \A k \in 2..(j - 1) : s[k] # close /\ s[k] # "\n" }
       IN  IF Head(s) = open /\ ends # {}
           THEN RemoveSpans(SubSeq(s, (CHOOSE j \in ends : TRUE) + 1, Len(s)),
                            open, close)
           ELSE <<Head(s)>> \o RemoveSpans(Tail(s), open, close)

\* re.sub(r'\s+', ' ', script)
RECURSIVE CollapseWs(_)
CollapseWs(s) ==
  IF s = <<>> THEN <<>>
  ELSE IF Head(s) \in Whitespace
       THEN <<" ">> \o CollapseWs(DropLeadingWs(s))
       ELSE <<Head(s)>> \o CollapseWs(Tail(s))

_clean_script(s) ==
  StripWs(CollapseWs(
    RemoveSpans(RemoveSpans(DropMarker(s), "[", "]"), "(", ")")))

\* (mutant) a fallback padded up to the target length
FallbackScript_Padded(tp, target_words) ==
  <<"\n", "breaking:", " ", tp, ".", "\n", "developing_story", "\n">>
    \o [k \in 1..(target_words \div 100) |-> "more"]

\* _generate_fallback_script: the fixed template around the topic
\* (target_words is not used)
FallbackScript(tp, target_words) ==
  <<"\n", "breaking:", " ", tp, ".", "\n", "developing_story", "\n">>

\* the try/except of generate_news_script: the cleaned answer, or the
\* fallback when the call or the reading of its answer raises
NewsScript(tp, duration, outcome) ==
  IF outcome.kind = "text"
  THEN _clean_script(StripWs(outcome.content))
  ELSE FallbackScript(tp, TargetWords(duration))

NotSeen == [text |-> <<>>, target_words |-> -1]

SgIdle ==
  /\ sg_pc = "idle"
  /\ topic = "AI"
  /\ duration_seconds = 30
  /\ style = "professional"
  /\ api = [kind |-> "raise", content |-> <<>>]
  /\ script = <<>>
  /\ fallback_seen = [t \in Topics |-> NotSeen]

\* ScriptGenerator made, no call yet
SgInit ==
  /\ sg_pc = "ready"
  /\ topic = "AI"
  /\ duration_seconds = 30
  /\ style = "professional"
  /\ api = [kind |-> "raise", content |-> <<>>]
  /\ script = <<>>
  /\ fallback_seen = [t \in Topics |-> NotSeen]

GenerateNewsScript ==
  /\ sg_pc \in {"ready", "done"}
  /\ \E tp \in Topics, u \in 0..MaxScriptUnits, st \in Styles,
        outcome \in ApiOutcomes :
       LET text == NewsScript(tp, 30 * u, outcome)
       IN  /\ topic' = tp
           /\ duration_seconds' = 30 * u
           /\ style' = StyleInstruction(st)
           /\ api' = outcome
           /\ script' = text
           /\ fallback_seen' =
                IF outcome.kind # "text" /\ fallback_seen[tp] = NotSeen
                THEN [fallback_seen EXCEPT
                        ![tp] = [text |-> text,
                                 target_words |-> TargetWords(30 * u)]]
                ELSE fallback_seen
  /\ sg_pc' = "done"
  /\ UNCHANGED <<cvs_vars, mic_vars, tts_vars, rec_vars,
               q_vars, pp_vars, mon_vars, ui_vars,
               cl_vars, pv_vars, cm_vars, vg_vars, sub_vars>>

SgNext == GenerateNewsScript

\* =====================================================================
\* VoiceCloner.record_voice_from_microphone and test_microphone
\* =====================================================================

\* chunk = 1024
Chunk == 1024

\* rate = 44100
Rate == 44100

\* duration = 2 in test_microphone
TestDuration == 2

\* one pass too many
TotalFrames_OneMore(duration) == (Rate * duration) \div Chunk + 1

\* int(rate / chunk * duration): 44100 / 1024 is exact in binary floating
\* point, and so is its product with a small integer
TotalFrames(duration) == (Rate * duration) \div Chunk

\* The call that raises: none, PyAudio(), p.open, stream.read for the frame
\* of index k, stream.stop_stream, or (after the release) the saving or the
\* processing of the recording.
RecFaults(n) ==
  { [at |-> a, index |-> 0] :
      a \in {"none", "init", "open", "stop", "save", "process"} }
    \cup { [at |-> "read", index |-> k] : k \in {0, 1, n - 1} \cap 0..(n - 1) }

RecFailure == [success |-> FALSE]

RecIdle ==
  /\ rec_pc = "idle"
  /\ rec_op = "record"
  /\ rec_duration = 0
  /\ rec_fault = [at |-> "none", index |-> 0]
  /\ pa = "none"
  /\ stream = "none"
  /\ frames = 0
  /\ rec_result = None

RecInit ==
  /\ rec_pc = "start"
  /\ rec_op \in {"record", "test"}
  /\ rec_duration \in (IF rec_op = "test" THEN {TestDuration} ELSE 0..MaxDuration)
  /\ rec_fault \in RecFaults(TotalFrames(rec_duration))
  /\ rec_op = "test" => rec_fault.at \notin {"save", "process"}
  /\ pa = "none"
  /\ stream = "none"
  /\ frames = 0
  /\ rec_result = None

\* p = pyaudio.PyAudio(); stream = p.open(...); frames = []
OpenStream ==
  /\ rec_pc = "start"
  /\ IF rec_fault.at = "init"
     THEN /\ rec_pc' = "done" /\ rec_result' = RecFailure
          /\ UNCHANGED <<pa, stream>>
     ELSE IF rec_fault.at = "open"
     THEN /\ rec_pc' = "done" /\ rec_result' = RecFailure
          /\ pa' = "live"
          /\ UNCHANGED stream
     ELSE /\ rec_pc' = "reading"
          /\ pa' = "live"
          /\ stream' = "open"
          /\ UNCHANGED rec_result
  /\ UNCHANGED <<rec_op, rec_duration, rec_fault, frames>>
  /\ UNCHANGED <<cvs_vars, mic_vars, tts_vars, sg_vars,
               q_vars, pp_vars, mon_vars, ui_vars,
               cl_vars, pv_vars, cm_vars, vg_vars, sub_vars>>

\* one pass of the capture loop: data = stream.read(chunk); frames.append(data)
ReadFrame ==
  /\ rec_pc = "reading"
  /\ frames < TotalFrames(rec_duration)
  /\ IF rec_fault.at = "read" /\ rec_fault.index = frames
     THEN /\ rec_pc' = "done" /\ rec_result' = RecFailure
          /\ UNCHANGED frames
     ELSE /\ frames' = frames + 1
          /\ UNCHANGED <<rec_pc, rec_result>>
  /\ UNCHANGED <<rec_op, rec_duration, rec_fault, pa, stream>>
  /\ UNCHANGED <<cvs_vars, mic_vars, tts_vars, sg_vars,
               q_vars, pp_vars, mon_vars, ui_vars,
               cl_vars, pv_vars, cm_vars, vg_vars, sub_vars>>

\* after the loop: stream.stop_stream(); stream.close(); p.terminate()
ReleaseStream ==
  /\ rec_pc = "reading"
  /\ frames = TotalFrames(rec_duration)
  /\ IF rec_fault.at = "stop"
     THEN /\ rec_pc' = "done" /\ rec_result' = RecFailure
          /\ UNCHANGED <<pa, stream>>
     ELSE /\ rec_pc' = "released"
          /\ stream' = "closed"
          /\ pa' = "terminated"
          /\ UNCHANGED rec_result
  /\ UNCHANGED <<rec_op, rec_duration, rec_fault, frames>>
  /\ UNCHANGED <<cvs_vars, mic_vars, tts_vars, sg_vars,
               q_vars, pp_vars, mon_vars, ui_vars,
               cl_vars, pv_vars, cm_vars, vg_vars, sub_vars>>

\* the rest of the try body: the recording is saved and processed
\* (record_voice_from_microphone) or its level computed (test_microphone)
FinishRecording ==
  /\ rec_pc = "released"
  /\ rec_pc' = "done"
  /\ rec_result' = IF rec_fault.at \in {"save", "process"}
                   THEN RecFailure
                   ELSE [success |-> TRUE]
  /\ UNCHANGED <<rec_op, rec_duration, rec_fault, pa, stream, frames>>
  /\ UNCHANGED <<cvs_vars, mic_vars, tts_vars, sg_vars,
               q_vars, pp_vars, mon_vars, ui_vars,
               cl_vars, pv_vars, cm_vars, vg_vars, sub_vars>>

RecNext == OpenStream \/ ReadFrame \/ ReleaseStream \/ FinishRecording

\* =====================================================================
\* VoiceCloner._assess_chunk_quality and _assess_audio_quality
\* =====================================================================

\* A float is finite (v, an integer number of units), nan, inf or -inf.
Fin(x) == [kind |-> "fin", v |-> x]

NaN == [kind |-> "nan", v |-> 0]

PInf == [kind |-> "pinf", v |-> 0]

NInf == [kind |-> "ninf", v |-> 0]

\* a > b of IEEE floats: false as soon as one side is nan
Gt(a, b) ==
  /\ a.kind # "nan" /\ b.kind # "nan"
  /\ \/ a.kind = "pinf" /\ b.kind # "pinf"
     \/ a.kind = "fin" /\ b.kind = "ninf"
     \/ a.kind = "fin" /\ b.kind = "fin" /\ a.v > b.v

\* max(a, b) of Python: the first argument unless the second is greater
PyMax(a, b) == IF Gt(b, a) THEN b ELSE a

\* min(a, b) of Python: the first argument unless the second is smaller
PyMin(a, b) == IF Gt(a, b) THEN b ELSE a

\* the audio score is kept in units of 1/30000, in which
\* (snr / 30.0 + spectral_centroid / 5000.0) / 2.0 is the integer
\* 500 * snr + 3 * spectral_centroid
ScoreUnit == 30000

RawScore(snr, spectral_centroid) ==
  IF snr.kind = "fin"
  THEN Fin(500 * snr.v + 3 * spectral_centroid)
  ELSE snr

\* the sum, returned as it is
_assess_audio_quality_Unclamped(snr, spectral_centroid) ==
  RawScore(snr, spectral_centroid)

\* quality_score = min(1.0, max(0.0, (snr / 30.0 + centroid / 5000.0) / 2.0))
_assess_audio_quality(snr, spectral_centroid) ==
  PyMin(Fin(ScoreUnit), PyMax(Fin(0), RawScore(snr, spectral_centroid)))

\* highest rms or peak of a chunk, in tenths of 32768 (samples wider than 16
\* bits exceed 1.0 after the division by 32768.0)
MaxLevel == 12

\* rms and peak of the samples of a chunk: 0 <= rms <= peak, and rms = 0
\* only for a chunk of zeros
ChunkLevels ==
  { c \in [len : {3000}, rms : 0..MaxLevel, peak : 0..MaxLevel] :
      c.rms <= c.peak /\ (c.rms = 0 => c.peak = 0) }

\* snr = 10 * np.log10(signal_power / (noise_power + 1e-10)), in dB: -inf for
\* a signal of zeros, nan for an empty one
SnrValues ==
  {NInf, NaN, PInf} \cup {Fin(x) : x \in {0 - 40, 0 - 10, 0, 10, 15, 30, 60}}

\* np.mean(librosa.feature.spectral_centroid(...)), in Hz
Centroids == {0, 1000, 2500, 5000, 11025}

QIdle ==
  /\ q_pc = "idle"
  /\ q_op = "chunk"
  /\ q_chunk = [len |-> 3000, rms |-> 0, peak |-> 0]
  /\ q_snr = Fin(0)
  /\ q_centroid = 0
  /\ q_score = Fin(0)

QInit ==
  /\ q_pc = "call"
  /\ q_op \in {"chunk", "audio"}
  /\ q_chunk \in (IF q_op = "chunk" THEN ChunkLevels
                  ELSE {[len |-> 3000, rms |-> 0, peak |-> 0]})
  /\ q_snr \in (IF q_op = "audio" THEN SnrValues ELSE {Fin(0)})
  /\ q_centroid \in (IF q_op = "audio" THEN Centroids ELSE {0})
  /\ q_score = Fin(0)

\* _assess_chunk_quality(chunk), in hundredths
AssessChunkQuality ==
  /\ q_pc = "call"
  /\ q_op = "chunk"
  /\ q_pc' = "done"
  /\ q_score' = Fin(_assess_chunk_quality(q_chunk))
  /\ UNCHANGED <<q_op, q_chunk, q_snr, q_centroid>>
  /\ UNCHANGED <<cvs_vars, mic_vars, tts_vars, sg_vars, rec_vars,
                 pp_vars, mon_vars, ui_vars,
                 cl_vars, pv_vars, cm_vars, vg_vars, sub_vars>>

\* _assess_audio_quality(audio), in units of 1/ScoreUnit
AssessAudioQuality ==
  /\ q_pc = "call"
  /\ q_op = "audio"
  /\ q_pc' = "done"
  /\ q_score' = _assess_audio_quality(q_snr, q_centroid)
  /\ UNCHANGED <<q_op, q_chunk, q_snr, q_centroid>>
  /\ UNCHANGED <<cvs_vars, mic_vars, tts_vars, sg_vars, rec_vars,
                 pp_vars, mon_vars, ui_vars,
                 cl_vars, pv_vars, cm_vars, vg_vars, sub_vars>>

QNext == AssessChunkQuality \/ AssessAudioQuality

\* =====================================================================
\* VoiceCloner.extract_voice_from_audio and _process_audio_file
\* =====================================================================

\* longest audio file, in seconds
MaxAudioLen == 4

\* the audio file: an empty file is silence
AudioInputs ==
  { a \in [len : 0..MaxAudioLen, silent : BOOLEAN] : a.len = 0 => a.silent }

\* What the libraries do with a file of n seconds: librosa.load raises or
\* not; librosa.effects.trim(audio, top_db=20) keeps trim_len seconds, at
\* least one frame of a signal that is not silence; _reduce_noise (stft and
\* istft) raises or not; sf.write raises or not.
LibOutcomes(a) ==
  { l \in [load : {"ok", "raise"}, trim_len : 0..a.len,
           noise : {"ok", "raise"}, write : {"ok", "raise"}] :
      /\ ~a.silent => l.trim_len >= 1
      /\ l.load = "raise" => (l.trim_len = 0 /\ l.noise = "ok" /\ l.write = "ok")
      /\ l.noise = "raise" => l.write = "ok" }

\* audio after load, normalize, trim and _reduce_noise: its length, or the
\* exception that left the function
_process_audio_file(lib) ==
  IF lib.load = "raise" \/ lib.noise = "raise"
  THEN [raised |-> TRUE, len |-> 0]
  ELSE [raised |-> FALSE, len |-> lib.trim_len]

\* except Exception as e: return {"success": False, "error": str(e)}
PpFailure == [success |-> FALSE, error |-> "str(e)", duration |-> 0]

PpIdle ==
  /\ pp_pc = "idle"
  /\ pp_input = [len |-> 0, silent |-> TRUE]
  /\ pp_lib = [load |-> "ok", trim_len |-> 0, noise |-> "ok", write |-> "ok"]
  /\ pp_written = 0 - 1
  /\ pp_result = None

PpInit ==
  /\ pp_pc = "call"
  /\ pp_input \in AudioInputs
  /\ pp_lib \in LibOutcomes(pp_input)
  /\ pp_written = 0 - 1
  /\ pp_result = None

\* extract_voice_from_audio(audio_path, output_path)
ExtractVoiceFromAudio ==
  /\ pp_pc = "call"
  /\ pp_pc' = "done"
  /\ LET processed_audio == _process_audio_file(pp_lib)
     IN IF processed_audio.raised \/ pp_lib.write = "raise"
        THEN /\ pp_result' = PpFailure
             /\ UNCHANGED pp_written
        ELSE /\ pp_written' = processed_audio.len
             /\ pp_result' = [success |-> TRUE, error |-> "",
                              duration |-> processed_audio.len]
  /\ UNCHANGED <<pp_input, pp_lib>>
  /\ UNCHANGED <<cvs_vars, mic_vars, tts_vars, sg_vars, rec_vars,
                 q_vars, mon_vars, ui_vars,
                 cl_vars, pv_vars, cm_vars, vg_vars, sub_vars>>

PpNext == ExtractVoiceFromAudio

\* =====================================================================
\* The Level Monitor: start_audio_monitoring, stop_audio_monitoring and
\* get_current_audio_level.  tts_engine.py:252-266 and
\* video_generator.py:300-314 pass these calls on to VoiceCloner, whose
\* methods of these names are not part of src/utils/voice_cloner.py; the
\* monitor below follows section 4.2 of the specification.
\* =====================================================================

\* positions of the gain slider, in tenths (0.1 .. 5.0 in steps of 0.1)
Gains == {10, 30}

\* index None, the system's default microphone
NoIndex == 0 - 1

\* device_index: None or a position in the list of microphones
Mics == {NoIndex, 0}

\* rms and peak of a frame before the gain, in tenths of full scale
Frames == { [rms |-> 1, peak |-> 2], [rms |-> 6, peak |-> 9] }

\* rms and peak in hundredths
ZeroLevel == [rms_level |-> 0, peak_level |-> 0, clipping |-> FALSE, gain |-> 0]

\* the snapshot of one frame: rms and peak after the gain, normalized to
\* [0, 1]; clipping when a sample after the gain exceeds full scale
Snapshot(frame, gain) ==
  [rms_level |-> Min(100, frame.rms * gain),
   peak_level |-> Min(100, frame.peak * gain),
   clipping |-> frame.peak * gain > 100,
   gain |-> gain]

\* the snapshot written field after field: a reader in between sees the
\* new levels with the old clipping flag and gain
Publish_FieldByField(old, new) ==
  [new EXCEPT !.clipping = old.clipping, !.gain = old.gain]

\* publishing replaces the retained snapshot as a whole
Publish(old, new) == new

MonitorOff ==
  [loops |-> 0, gain |-> 10, device |-> NoIndex, level |-> ZeroLevel,
   failed |-> FALSE]

\* start without the check for a running monitor
StartMonitoring_NoGuard(m, device_index, gain_multiplier, host_ok) ==
  IF ~host_ok
  THEN [m |-> m, success |-> FALSE, error |-> "DeviceUnavailable"]
  ELSE [m |-> [loops |-> m.loops + 1, gain |-> gain_multiplier,
               device |-> device_index, level |-> ZeroLevel,
               failed |-> FALSE],
        success |-> TRUE, error |-> ""]

\* start(device, gain): fails with AlreadyMonitoring while a monitor is
\* active, with DeviceUnavailable when the stream cannot be opened
StartMonitoring(m, device_index, gain_multiplier, host_ok) ==
  IF m.loops > 0
  THEN [m |-> m, success |-> FALSE, error |-> "AlreadyMonitoring"]
  ELSE IF ~host_ok
  THEN [m |-> m, success |-> FALSE, error |-> "DeviceUnavailable"]
  ELSE [m |-> [loops |-> 1, gain |-> gain_multiplier,
               device |-> device_index, level |-> ZeroLevel,
               failed |-> FALSE],
        success |-> TRUE, error |-> ""]

\* stop that takes a running monitor for granted
StopMonitoring_Strict(m) ==
  IF m.loops > 0
  THEN [m |-> [m EXCEPT !.loops = 0], error |-> ""]
  ELSE [m |-> [m EXCEPT !.level = ZeroLevel, !.failed = TRUE],
        error |-> "NotMonitoring"]

\* stop(handle): ends the loop and releases the stream; idempotent
StopMonitoring(m) == [m |-> [m EXCEPT !.loops = 0], error |-> ""]

\* current_level(handle): the latest published snapshot, zeroed if none
GetCurrentAudioLevel(m) == m.level

\* the record of a start or stop call
Call(op, prev, before, after, success, error) ==
  [op |-> op, prev_op |-> prev.op, was_active |-> before.loops > 0,
   success |-> success, error |-> error, changed |-> after # before]

NoCall ==
  [op |-> "none", prev_op |-> "none", was_active |-> FALSE, success |-> FALSE,
   error |-> "", changed |-> FALSE]

MonIdle ==
  /\ monitor = MonitorOff
  /\ last_call = NoCall
  /\ got = ZeroLevel

\* the background loop: one frame read, its snapshot published
MonitorStep ==
  /\ monitor.loops > 0
  /\ \E frame \in Frames :
       monitor' = [monitor EXCEPT
                     !.level = Publish(@, Snapshot(frame, monitor.gain))]
  /\ UNCHANGED <<last_call, got>>
  /\ UNCHANGED <<cvs_vars, mic_vars, tts_vars, sg_vars, rec_vars,
                 q_vars, pp_vars, ui_vars,
                 cl_vars, pv_vars, cm_vars, vg_vars, sub_vars>>

\* StreamReadError: fatal to the monitoring session, which is torn down
MonitorError ==
  /\ monitor.loops > 0
  /\ monitor' = [monitor EXCEPT !.loops = 0, !.failed = TRUE]
  /\ UNCHANGED <<last_call, got>>
  /\ UNCHANGED <<cvs_vars, mic_vars, tts_vars, sg_vars, rec_vars,
                 q_vars, pp_vars, ui_vars,
                 cl_vars, pv_vars, cm_vars, vg_vars, sub_vars>>

\* TTSEngine.start_audio_monitoring(callback, gain_multiplier, device_index)
CallStart ==
  /\ \E device_index \in Mics, gain_multiplier \in Gains, host_ok \in BOOLEAN :
       LET r == StartMonitoring(monitor, device_index, gain_multiplier, host_ok)
       IN /\ monitor' = r.m
          /\ last_call' = Call("start", last_call, monitor, r.m, r.success,
                               r.error)
  /\ UNCHANGED got
  /\ UNCHANGED <<cvs_vars, mic_vars, tts_vars, sg_vars, rec_vars,
                 q_vars, pp_vars, ui_vars,
                 cl_vars, pv_vars, cm_vars, vg_vars, sub_vars>>

\* TTSEngine.stop_audio_monitoring()
CallStop ==
  /\ LET r == StopMonitoring(monitor)
     IN /\ monitor' = r.m
        /\ last_call' = Call("stop", last_call, monitor, r.m, r.error = "",
                             r.error)
  /\ UNCHANGED got
  /\ UNCHANGED <<cvs_vars, mic_vars, tts_vars, sg_vars, rec_vars,
                 q_vars, pp_vars, ui_vars,
                 cl_vars, pv_vars, cm_vars, vg_vars, sub_vars>>

\* TTSEngine.get_current_audio_level()
CallGetLevel ==
  /\ got' = GetCurrentAudioLevel(monitor)
  /\ UNCHANGED <<monitor, last_call>>
  /\ UNCHANGED <<cvs_vars, mic_vars, tts_vars, sg_vars, rec_vars,
                 q_vars, pp_vars, ui_vars,
                 cl_vars, pv_vars, cm_vars, vg_vars, sub_vars>>

MonNext ==
  MonitorStep \/ MonitorError \/ CallStart \/ CallStop \/ CallGetLevel

\* =====================================================================
\* The voice tab of app.py (direct recording): one run of the script per
\* user action or st.rerun().  The microphone-test button (196-200) and the
\* quick level check (483-490) are outside this model.
\* =====================================================================

\* the clock advances in ticks of half a second
TicksPerSecond == 2

\* longest time between the start and the stop of a recording, in ticks
MaxTicks == 3

\* record_duration = st.slider(..., 10, 60, 20), left at its lowest position
RecordDuration == 10

Abs(x) == IF x < 0 THEN 0 - x ELSE x

\* what a user can do to the page before a run
Events == {"none", "monitor_btn", "start_btn", "stop_btn", "gain", "mic"}

NothingShown == [level |-> ZeroLevel, notice |-> ""]

SessionInit ==
  [audio_monitoring |-> FALSE, current_gain |-> 10,
   current_mic_index |-> NoIndex, last_gain |-> 0,
   recording_state |-> "idle"]

UiIdle ==
  /\ ss = SessionInit
  /\ widgets = [gain |-> 10, mic |-> NoIndex]
  /\ shown = NothingShown
  /\ elapsed = 0

\* 234-275: the monitoring toggle
MonitorButton(r, pressed, host_ok) ==
  IF ~pressed THEN r
  ELSE IF ~r.ss.audio_monitoring
  THEN LET start_result == StartMonitoring(r.m, r.ss.current_mic_index,
                                     r.ss.current_gain, host_ok)
       IN [r EXCEPT !.m = start_result.m,
                    !.ss.audio_monitoring = IF start_result.success THEN TRUE ELSE @,
                    !.shown.notice = IF start_result.success THEN "started"
                                     ELSE "start failed"]
  ELSE [r EXCEPT !.m = StopMonitoring(r.m).m,
                 !.ss.audio_monitoring = FALSE,
                 !.shown.notice = "stopped",
                 !.ended = TRUE]

\* the levels displayed and the script carried on
LevelDisplay_NoRerun(r) ==
  IF r.ended \/ ~r.ss.audio_monitoring THEN r
  ELSE [r EXCEPT !.shown.level = GetCurrentAudioLevel(r.m)]

\* 278-367: while monitoring, the levels of one get_current_audio_level()
\* call are displayed, then time.sleep(0.1); st.rerun()
LevelDisplay(r) ==
  IF r.ended \/ ~r.ss.audio_monitoring THEN r
  ELSE [r EXCEPT !.shown.level = GetCurrentAudioLevel(r.m),
                 !.ended = TRUE]

\* 369-406: the gain slider; last_gain = 0 stands for no last_gain yet
GainSection(r, gain_multiplier, host_ok) ==
  IF r.ended THEN r
  ELSE LET r1 == [r EXCEPT !.ss.current_gain = gain_multiplier]
       IN IF ~r1.ss.audio_monitoring THEN r1
          ELSE IF r1.ss.last_gain = 0
          THEN [r1 EXCEPT !.ss.last_gain = gain_multiplier]
          ELSE IF Abs(r1.ss.last_gain - gain_multiplier) > 1
          THEN [r1 EXCEPT
                  !.ss.last_gain = gain_multiplier,
                  !.m = StartMonitoring(StopMonitoring(r1.m).m,
                                        r1.ss.current_mic_index,
                                        gain_multiplier, host_ok).m]
          ELSE r1

\* 411-476: the microphone selectbox
MicSection(r, selected_mic_index, has_mics, host_ok) ==
  IF r.ended THEN r
  ELSE IF ~has_mics THEN [r EXCEPT !.ss.current_mic_index = NoIndex]
  ELSE LET old_mic_index == r.ss.current_mic_index
           r1 == [r EXCEPT !.ss.current_mic_index = selected_mic_index]
       IN IF old_mic_index # selected_mic_index /\ r1.ss.audio_monitoring
          THEN [r1 EXCEPT
                  !.m = StartMonitoring(StopMonitoring(r1.m).m,
                                        selected_mic_index,
                                        r1.ss.current_gain, host_ok).m]
          ELSE r1

\* 551-694: the recording state machine, up to the call of
\* record_voice_from_microphone
RecordingSection(r, ev) ==
  IF r.ended THEN r
  ELSE IF r.ss.recording_state = "idle"
  THEN IF ev = "start_btn"
       THEN [r EXCEPT !.ss.recording_state = "recording",
                      !.elapsed = 0, !.ended = TRUE]
       ELSE r
  ELSE IF r.ss.recording_state = "recording"
  THEN IF ev = "stop_btn" \/ r.elapsed >= RecordDuration * TicksPerSecond
       THEN [r EXCEPT !.ss.recording_state = "processing", !.ended = TRUE]
       ELSE [r EXCEPT !.ended = TRUE]
  ELSE [r EXCEPT !.capture = TRUE]

\* the script from the toggle to the recording section
Script(r, ev, gain_multiplier, selected_mic_index, has_mics, host_ok) ==
  RecordingSection(
    MicSection(
      GainSection(
        LevelDisplay(MonitorButton(r, ev = "monitor_btn", host_ok)),
        gain_multiplier, host_ok),
      selected_mic_index, has_mics, host_ok),
    ev)

\* int(actual_duration), actual_duration = min(time.time() -
\* recording_start_time, record_duration)
ActualDuration(ticks) ==
  Min(ticks, RecordDuration * TicksPerSecond) \div TicksPerSecond

\* what the call of record_voice_from_microphone made by the page does: the
\* recorder runs and returns its dictionary, or the call raises (nothing on
\* the way from the page to the recorder's own try block catches, and the
\* recorder of voice_cloner.py takes none of the keyword arguments
\* gain_multiplier, device_index, progress_callback it is handed)
CallOutcomes == {"runs", "raises"}

\* One run of the script.  The user's action comes first: a press of a
\* button, or a new position of the gain slider or of the selectbox (which
\* the page keeps whether or not the run reaches the widget).  A run that
\* reaches the processing branch calls record_voice_from_microphone and
\* waits for it; when the call raises the run ends there, the exception
\* on the page and st.session_state as it was.
ScriptRun ==
  /\ rec_pc = "idle"
  /\ \E ev \in Events, g \in Gains, mic \in Mics,
        has_mics \in BOOLEAN, host_ok \in BOOLEAN, call \in CallOutcomes :
       LET gain_multiplier == IF ev = "gain" THEN g ELSE widgets.gain
           selected_mic_index == IF ev = "mic" THEN mic ELSE widgets.mic
           r == Script([ss |-> ss, m |-> monitor, shown |-> NothingShown,
                        elapsed |-> elapsed, ended |-> FALSE,
                        capture |-> FALSE],
                       ev, gain_multiplier, selected_mic_index, has_mics,
                       host_ok)
       IN /\ widgets' = [gain |-> gain_multiplier, mic |-> selected_mic_index]
          /\ ss' = r.ss
          /\ monitor' = r.m
          /\ shown' = IF r.capture /\ call = "raises"
                       THEN [r.shown EXCEPT !.notice = "exception"]
                       ELSE r.shown
          /\ elapsed' = r.elapsed
          /\ IF r.capture /\ call = "runs"
             THEN /\ rec_pc' = "start"
                  /\ rec_op' = "record"
                  /\ rec_duration' = ActualDuration(r.elapsed)
                  /\ rec_fault' \in RecFaults(TotalFrames(rec_duration'))
                  /\ pa' = "none"
                  /\ stream' = "none"
                  /\ frames' = 0
                  /\ rec_result' = None
             ELSE UNCHANGED rec_vars
  /\ UNCHANGED <<last_call, got>>
  /\ UNCHANGED <<cvs_vars, mic_vars, tts_vars, sg_vars, q_vars, pp_vars,
                 cl_vars, pv_vars, cm_vars, vg_vars, sub_vars>>

\* time passes while the page is in its recording state
Tick ==
  /\ rec_pc = "idle"
  /\ ss.recording_state = "recording"
  /\ elapsed < MaxTicks
  /\ elapsed' = elapsed + 1
  /\ UNCHANGED <<ss, widgets, shown>>
  /\ UNCHANGED <<cvs_vars, mic_vars, tts_vars, sg_vars, rec_vars,
                 q_vars, pp_vars, mon_vars,
                 cl_vars, pv_vars, cm_vars, vg_vars, sub_vars>>

\* 696-748: record_voice_from_microphone has returned; the result is shown
\* and the page goes back to idle
ProcessingDone ==
  /\ rec_pc = "done"
  /\ ss.recording_state = "processing"
  /\ ss' = [ss EXCEPT !.recording_state = "idle"]
  /\ elapsed' = 0
  /\ shown' = [shown EXCEPT !.notice = IF rec_result.success THEN "recorded"
                                       ELSE "recording failed"]
  /\ rec_pc' = "idle"
  /\ rec_op' = "record"
  /\ rec_duration' = 0
  /\ rec_fault' = [at |-> "none", index |-> 0]
  /\ pa' = "none"
  /\ stream' = "none"
  /\ frames' = 0
  /\ rec_result' = None
  /\ UNCHANGED widgets
  /\ UNCHANGED <<cvs_vars, mic_vars, tts_vars, sg_vars, q_vars, pp_vars,
                 mon_vars,
                 cl_vars, pv_vars, cm_vars, vg_vars, sub_vars>>

UiNext ==
  \/ ScriptRun \/ Tick \/ ProcessingDone
  \/ MonitorStep \/ MonitorError
  \/ OpenStream \/ ReadFrame \/ ReleaseStream \/ FinishRecording

\* =====================================================================
\* VoiceCloner.clone_voice_with_text
\* =====================================================================
\* A file of the samples directory: its stem and its extension.  The file
\* sample_{i:03d}.wav that create_voice_samples exports has stem i.

\* most stems among the files of a samples directory
MaxFiles == 2

Extensions == {"wav", "WAV", "txt"}

DirFiles == [name : 0..(MaxFiles - 1), ext : Extensions]

\* the calls of clone_voice_with_text that may raise
CloneFaults == {"none", "listdir", "load", "extract", "synthesize", "write"}

\* (mutant) a test of the extension that ignores case
IsWav_AnyCase(f) == f.ext \in {"wav", "WAV"}

\* filename.endswith('.wav')
IsWav(f) == f.ext = "wav"

\* the loop over os.listdir: the files loaded as reference samples
LoadReferenceSamples(dir) == {f \in dir : IsWav(f)}

CloneFailure(msg) == [success |-> FALSE, error |-> msg]

\* the try body of clone_voice_with_text and its except clause: the
\* reference samples loaded, whether output_path was written, the result
CloneRun(dir, lib) ==
  LET refs == LoadReferenceSamples(dir)
  IN  IF lib = "listdir"
      THEN [refs |-> {}, written |-> FALSE, result |-> CloneFailure("listdir")]
      ELSE IF refs # {} /\ lib = "load"
      THEN [refs |-> {}, written |-> FALSE, result |-> CloneFailure("load")]
      ELSE IF refs = {}
      THEN [refs |-> {}, written |-> FALSE,
            result |-> CloneFailure("No voice samples found")]
      ELSE IF lib \in {"extract", "synthesize", "write"}
      THEN [refs |-> refs, written |-> FALSE, result |-> CloneFailure(lib)]
      ELSE [refs |-> refs, written |-> TRUE, result |-> [success |-> TRUE]]

ClIdle ==
  /\ cl_pc = "idle"
  /\ cl_dir = {}
  /\ cl_lib = "none"
  /\ reference_samples = {}
  /\ cl_written = FALSE
  /\ cl_result = None

\* a call on a directory that holds any files
ClInit ==
  /\ cl_pc = "call"
  /\ cl_dir \in SUBSET DirFiles
  /\ cl_lib \in CloneFaults
  /\ reference_samples = {}
  /\ cl_written = FALSE
  /\ cl_result = None

CloneVoiceWithText ==
  /\ cl_pc = "call"
  /\ cl_pc' = "done"
  /\ LET run == CloneRun(cl_dir, cl_lib)
     IN  /\ reference_samples' = run.refs
         /\ cl_written' = run.written
         /\ cl_result' = run.result
  /\ UNCHANGED <<cl_dir, cl_lib>>
  /\ UNCHANGED <<cvs_vars, mic_vars, tts_vars, sg_vars, rec_vars,
                 q_vars, pp_vars, mon_vars, ui_vars,
                 pv_vars, cm_vars, vg_vars, sub_vars>>

ClNext == CloneVoiceWithText

\* the caller that hands the directory create_voice_samples filled to
\* clone_voice_with_text (TTSEngine._generate_cloned_speech)
CloneFromSamples ==
  /\ cvs_pc = "done"
  /\ result.success
  /\ cl_pc = "idle"
  /\ cl_pc' = "call"
  /\ cl_dir' = output_dir
  /\ cl_lib' \in {"none", "synthesize"}
  /\ UNCHANGED <<reference_samples, cl_written, cl_result>>
  /\ UNCHANGED <<cvs_vars, mic_vars, tts_vars, sg_vars, rec_vars,
                 q_vars, pp_vars, mon_vars, ui_vars,
                 pv_vars, cm_vars, vg_vars, sub_vars>>

CreateCloneNext == CreateVoiceSamples \/ CloneFromSamples \/ CloneVoiceWithText

\* =====================================================================
\* TTSEngine.__init__ and get_available_providers
\* =====================================================================

\* Config.ELEVENLABS_API_KEY / Config.AZURE_SPEECH_KEY as the engine sees them
ConfiguredKeys == {None, "", "key"}

\* bool(key) of Python
KeySet(key) == key # None /\ key # ""

\* what the imports at the top of tts_engine.py found, and what the calls
\* of the constructor do
ProviderEnvs ==
  [ elevenlabs_key : ConfiguredKeys,
    azure_key      : ConfiguredKeys,
    elevenlabs_pkg : {"old", "new", "missing"},  \* which import succeeded
    azure_sdk      : BOOLEAN,                    \* AZURE_AVAILABLE
    set_api_key    : {"ok", "raise"},
    voice_cloner   : {"ok", "raise"} ]           \* VoiceCloner()

NoEngine == [built |-> FALSE, elevenlabs_available |-> FALSE,
             azure_available |-> FALSE, voice_cloner_available |-> FALSE]

\* TTSEngine.__init__: the flags of the instance; no instance when
\* VoiceCloner() raises
NewEngine(env) ==
  LET generate == env.elevenlabs_pkg = "old"
      eleven0  == KeySet(env.elevenlabs_key) /\ generate
      eleven   == eleven0 /\ env.set_api_key = "ok"
  IN  IF env.voice_cloner = "raise" THEN NoEngine
      ELSE [built |-> TRUE,
            elevenlabs_available |-> eleven,
            azure_available |-> KeySet(env.azure_key) /\ env.azure_sdk,
            voice_cloner_available |-> TRUE]

Append_If(list, cond, x) == IF cond THEN Append(list, x) ELSE list

\* (mutant) the providers listed with azure ahead of elevenlabs
ProviderList_AzureFirst(e) ==
  Append(
    Append_If(
      Append_If(
        Append_If(<<>>, e.voice_cloner_available, "cloned"),
        e.azure_available, "azure"),
      e.elevenlabs_available, "elevenlabs"),
    "basic")

\* the body of get_available_providers
ProviderList(e) ==
  Append(
    Append_If(
      Append_If(
        Append_If(<<>>, e.voice_cloner_available, "cloned"),
        e.elevenlabs_available, "elevenlabs"),
      e.azure_available, "azure"),
    "basic")

PvIdle ==
  /\ pv_pc = "idle"
  /\ pv_env = [elevenlabs_key |-> None, azure_key |-> None,
               elevenlabs_pkg |-> "missing", azure_sdk |-> FALSE,
               set_api_key |-> "ok", voice_cloner |-> "ok"]
  /\ engine = NoEngine
  /\ providers = <<>>

PvInit ==
  /\ pv_pc = "new"
  /\ pv_env \in ProviderEnvs
  /\ engine = NoEngine
  /\ providers = <<>>

\* TTSEngine()
ConstructEngine ==
  /\ pv_pc = "new"
  /\ engine' = NewEngine(pv_env)
  /\ pv_pc' = IF engine'.built THEN "built" ELSE "failed"
  /\ UNCHANGED <<pv_env, providers>>
  /\ UNCHANGED <<cvs_vars, mic_vars, tts_vars, sg_vars, rec_vars,
                 q_vars, pp_vars, mon_vars, ui_vars,
                 cl_vars, cm_vars, vg_vars, sub_vars>>

GetAvailableProviders ==
  /\ pv_pc = "built"
  /\ pv_pc' = "done"
  /\ providers' = ProviderList(engine)
  /\ UNCHANGED <<pv_env, engine>>
  /\ UNCHANGED <<cvs_vars, mic_vars, tts_vars, sg_vars, rec_vars,
                 q_vars, pp_vars, mon_vars, ui_vars,
                 cl_vars, cm_vars, vg_vars, sub_vars>>

PvNext == ConstructEngine \/ GetAvailableProviders

\* =====================================================================
\* ConfigManager, Config.update_from_manager and the key setup UI
\* =====================================================================
\* A key is what the code looks at: whether it starts with "sk-", its
\* length, and an identity that tells two keys apart.

\* operations carried out on one ConfigManager
MaxOps == 3

NoKey == [set |-> FALSE, id |-> 0, sk |-> FALSE, len |-> 0]

\* the keys a user types, and the key the environment holds
UserKeys == { [set |-> TRUE, id |-> 1, sk |-> TRUE,  len |-> 20],
              [set |-> TRUE, id |-> 2, sk |-> FALSE, len |-> 5] }

EnvKey == [set |-> TRUE, id |-> 3, sk |-> TRUE, len |-> 20]

\* the text of the key field: a key with or without blanks around it, or
\* nothing but blanks
KeyInputs == [key : UserKeys \cup {NoKey}, padded : BOOLEAN]

\* new_key.strip()
StripInput(input) == input.key

\* the services get_service_info lists, which the setup UI offers
UiServices == {"openai", "elevenlabs", "azure"}

Services == UiServices \cup {"azure_speech"}

\* session_key = f"{service.upper()}_API_KEY"
SessionKey(service) ==
  CASE service = "openai"       -> "OPENAI_API_KEY"
    [] service = "elevenlabs"   -> "ELEVENLABS_API_KEY"
    [] service = "azure"        -> "AZURE_API_KEY"
    [] service = "azure_speech" -> "AZURE_SPEECH_API_KEY"

KeyNames == {SessionKey(s) : s \in Services}

Empty == [k \in KeyNames |-> NoKey]

\* (mutant) the saved configuration looked up ahead of the session
get_api_key_SavedFirst(service, session, saved, env) ==
  LET session_key == SessionKey(service)
  IN  IF saved[session_key].set THEN saved[session_key]
      ELSE IF session[session_key].set THEN session[session_key]
      ELSE env[session_key]

\* get_api_key: st.session_state, then self.session_config, then os.getenv
get_api_key(service, session, saved, env) ==
  LET session_key == SessionKey(service)
  IN  IF session[session_key].set THEN session[session_key]
      ELSE IF saved[session_key].set THEN saved[session_key]
      ELSE env[session_key]

\* load_config: the content of the file when it is there and parses, {}
\* when reading it raises, the old value when there is no file
load_config(file, saved) ==
  IF file.state = "ok" THEN file.content
  ELSE IF file.state = "corrupt" THEN Empty
  ELSE saved

\* save_config: the file rewritten, or left as it was when open raises
save_config(file, saved, write_ok) ==
  IF write_ok THEN [state |-> "ok", content |-> saved] ELSE file

\* validate_api_keys: by key of the returned dictionary, the key that was
\* looked up and the verdict on it
validate_api_keys(session, saved, env) ==
  LET openai_key     == get_api_key("openai", session, saved, env)
      elevenlabs_key == get_api_key("elevenlabs", session, saved, env)
      azure_key      == get_api_key("azure_speech", session, saved, env)
  IN  [ openai     |-> [key |-> openai_key,
                        valid |-> openai_key.set /\ openai_key.sk],
        elevenlabs |-> [key |-> elevenlabs_key,
                        valid |-> elevenlabs_key.set /\ elevenlabs_key.len > 10],
        azure      |-> [key |-> azure_key,
                        valid |-> azure_key.set /\ azure_key.len > 10] ]

\* Config.update_from_manager: the class attributes, by service
update_from_manager(session, saved, env) ==
  [ openai     |-> get_api_key("openai", session, saved, env),
    elevenlabs |-> get_api_key("elevenlabs", session, saved, env),
    azure      |-> get_api_key("azure_speech", session, saved, env) ]

\* the services whose keys clear_all_keys deletes
ClearedServices == {"openai", "elevenlabs", "azure_speech"}

\* clear_all_keys on one of the two dictionaries
ClearKeys(store) ==
  [k \in KeyNames |->
     IF k \in {SessionKey(s) : s \in ClearedServices} THEN NoKey ELSE store[k]]

NoKeys == [openai |-> NoKey, elevenlabs |-> NoKey, azure |-> NoKey]

NoChecks == [s \in UiServices |-> [key |-> NoKey, valid |-> FALSE]]

NoRet == [op |-> "none", service |-> "none", value |-> NoKey,
          checked |-> NoChecks]

ConfigFiles ==
  { [state |-> "missing", content |-> Empty],
    [state |-> "corrupt", content |-> Empty],
    [state |-> "ok", content |-> Empty],
    [state |-> "ok",
     content |-> [Empty EXCEPT !["OPENAI_API_KEY"] = EnvKey,
                               !["AZURE_SPEECH_API_KEY"] = EnvKey]] }

Environments == { Empty, [k \in KeyNames |-> EnvKey] }

CmIdle ==
  /\ session_state = Empty
  /\ session_config = Empty
  /\ config_file = [state |-> "missing", content |-> Empty]
  /\ environ = Empty
  /\ config_keys = NoKeys
  /\ cm_ops = MaxOps
  /\ cm_ret = NoRet

\* a fresh browser session on a freshly imported config_manager module:
\* ConfigManager.__init__ has loaded the file
CmInit ==
  /\ session_state = Empty
  /\ config_file \in ConfigFiles
  /\ session_config = load_config(config_file, Empty)
  /\ environ \in Environments
  /\ config_keys = NoKeys
  /\ cm_ops = 0
  /\ cm_ret = NoRet

CmFrame ==
  UNCHANGED <<cvs_vars, mic_vars, tts_vars, sg_vars, rec_vars,
              q_vars, pp_vars, mon_vars, ui_vars,
              cl_vars, pv_vars, vg_vars, sub_vars>>

\* the save button of a service section: set_api_key with the stripped key,
\* or an error message when the field is blank
SaveButton ==
  /\ cm_ops < MaxOps
  /\ \E service \in UiServices, input \in KeyInputs,
        save_to_file \in BOOLEAN, write_ok \in BOOLEAN :
       LET api_key == StripInput(input)
       IN  IF api_key.set
           THEN /\ session_state' =
                     [session_state EXCEPT ![SessionKey(service)] = api_key]
                /\ IF save_to_file
                   THEN /\ session_config' =
                             [session_config EXCEPT
                                ![SessionKey(service)] = api_key]
                        /\ config_file' =
                             save_config(config_file, session_config', write_ok)
                   ELSE UNCHANGED <<session_config, config_file>>
                /\ cm_ret' = [op |-> "set", service |-> service,
                              value |-> api_key, checked |-> NoChecks]
           ELSE /\ UNCHANGED <<session_state, session_config, config_file>>
                /\ cm_ret' = [op |-> "blank", service |-> service,
                              value |-> NoKey, checked |-> NoChecks]
  /\ cm_ops' = cm_ops + 1
  /\ UNCHANGED <<environ, config_keys>>
  /\ CmFrame

\* the button that deletes all keys: clear_all_keys
ClearAllKeys ==
  /\ cm_ops < MaxOps
  /\ session_state' = ClearKeys(session_state)
  /\ session_config' = ClearKeys(session_config)
  /\ \E write_ok \in BOOLEAN :
       config_file' = save_config(config_file, session_config', write_ok)
  /\ cm_ret' = [op |-> "clear", service |-> "none", value |-> NoKey,
                checked |-> NoChecks]
  /\ cm_ops' = cm_ops + 1
  /\ UNCHANGED <<environ, config_keys>>
  /\ CmFrame

LoadConfig ==
  /\ cm_ops < MaxOps
  /\ session_config' = load_config(config_file, session_config)
  /\ cm_ret' = [op |-> "load", service |-> "none", value |-> NoKey,
                checked |-> NoChecks]
  /\ cm_ops' = cm_ops + 1
  /\ UNCHANGED <<session_state, config_file, environ, config_keys>>
  /\ CmFrame

SaveConfig ==
  /\ cm_ops < MaxOps
  /\ \E write_ok \in BOOLEAN :
       config_file' = save_config(config_file, session_config, write_ok)
  /\ cm_ret' = [op |-> "save", service |-> "none", value |-> NoKey,
                checked |-> NoChecks]
  /\ cm_ops' = cm_ops + 1
  /\ UNCHANGED <<session_state, session_config, environ, config_keys>>
  /\ CmFrame

GetApiKey ==
  /\ cm_ops < MaxOps
  /\ \E service \in Services :
       cm_ret' = [op |-> "get", service |-> service,
                  value |-> get_api_key(service, session_state,
                                        session_config, environ),
                  checked |-> NoChecks]
  /\ cm_ops' = cm_ops + 1
  /\ UNCHANGED <<session_state, session_config, config_file, environ,
                 config_keys>>
  /\ CmFrame

ValidateApiKeys ==
  /\ cm_ops < MaxOps
  /\ cm_ret' = [op |-> "validate", service |-> "none", value |-> NoKey,
                checked |-> validate_api_keys(session_state, session_config,
                                              environ)]
  /\ cm_ops' = cm_ops + 1
  /\ UNCHANGED <<session_state, session_config, config_file, environ,
                 config_keys>>
  /\ CmFrame

UpdateFromManager ==
  /\ cm_ops < MaxOps
  /\ config_keys' = update_from_manager(session_state, session_config, environ)
  /\ cm_ret' = [op |-> "update", service |-> "none", value |-> NoKey,
                checked |-> NoChecks]
  /\ cm_ops' = cm_ops + 1
  /\ UNCHANGED <<session_state, session_config, config_file, environ>>
  /\ CmFrame

CmNext ==
  \/ SaveButton \/ ClearAllKeys \/ LoadConfig \/ SaveConfig
  \/ GetApiKey \/ ValidateApiKeys \/ UpdateFromManager

\* =====================================================================
\* VideoGenerator.generate_video
\* =====================================================================

\* news_topic as a list of characters
NewsTopics == { <<>>, <<" ">>, <<"a", "i">> }

VideoInputs == [image_exists : BOOLEAN, news_topic : NewsTopics]

\* what each collaborator call does: return a value that counts as success,
\* return one that counts as failure, or raise
CollaboratorOutcomes ==
  [ generate_news_script  : {"ok", "falsy", "raise"},
    analyze_script_timing : {"ok", "raise"},
    generate_speech       : {"ok", "falsy", "raise"},
    get_audio_duration    : {"ok", "raise"},
    create_video          : {"ok", "falsy", "raise"},
    remove                : {"ok", "raise"} ]

VideoFailure(msg) == [success |-> FALSE, error |-> msg]

VideoSuccess == [success |-> TRUE, error |-> ""]

\* except Exception as e: return {"success": False, "error": str(e)}, the
\* message of the exception standing for the call that raised it
Raised(call) == VideoFailure(call)

\* the two checks ahead of Step 1: "stop" with the result, or go on
ValidateInputs(in) ==
  IF ~in.image_exists
  THEN [next |-> "done", result |-> VideoFailure("Image file not found")]
  ELSE IF Strip(in.news_topic) = <<>>
  THEN [next |-> "done", result |-> VideoFailure("News topic is required")]
  ELSE [next |-> "script", result |-> None]

\* Step 1: generate_news_script, the test of its value, analyze_script_timing
ScriptStep(env) ==
  IF env.generate_news_script = "raise"
  THEN [calls |-> <<"generate_news_script">>, next |-> "done",
        result |-> Raised("generate_news_script")]
  ELSE IF env.generate_news_script = "falsy"
  THEN [calls |-> <<"generate_news_script">>, next |-> "done",
        result |-> VideoFailure("Failed to generate script")]
  ELSE IF env.analyze_script_timing = "raise"
  THEN [calls |-> <<"generate_news_script", "analyze_script_timing">>,
        next |-> "done", result |-> Raised("analyze_script_timing")]
  ELSE [calls |-> <<"generate_news_script", "analyze_script_timing">>,
        next |-> "voiceover", result |-> None]

\* (mutant) Step 2 without the test of tts_success
VoiceoverStep_NoCheck(env) ==
  IF env.generate_speech = "raise"
  THEN [calls |-> <<"generate_speech">>, next |-> "done",
        result |-> Raised("generate_speech")]
  ELSE IF env.get_audio_duration = "raise"
  THEN [calls |-> <<"generate_speech", "get_audio_duration">>,
        next |-> "done", result |-> Raised("get_audio_duration")]
  ELSE [calls |-> <<"generate_speech", "get_audio_duration">>,
        next |-> "compose", result |-> None]

\* Step 2: generate_speech, the test of its value, get_audio_duration
VoiceoverStep(env) ==
  IF env.generate_speech = "raise"
  THEN [calls |-> <<"generate_speech">>, next |-> "done",
        result |-> Raised("generate_speech")]
  ELSE IF env.generate_speech = "falsy"
  THEN [calls |-> <<"generate_speech">>, next |-> "done",
        result |-> VideoFailure("Failed to generate voiceover")]
  ELSE IF env.get_audio_duration = "raise"
  THEN [calls |-> <<"generate_speech", "get_audio_duration">>,
        next |-> "done", result |-> Raised("get_audio_duration")]
  ELSE [calls |-> <<"generate_speech", "get_audio_duration">>,
        next |-> "compose", result |-> None]

\* Step 3: create_video, the test of its value, the removal of the audio
\* file inside its own try / except: pass
ComposeStep(env) ==
  IF env.create_video = "raise"
  THEN [calls |-> <<"create_video">>, next |-> "done",
        result |-> Raised("create_video")]
  ELSE IF env.create_video = "falsy"
  THEN [calls |-> <<"create_video">>, next |-> "done",
        result |-> VideoFailure("Failed to create video")]
  ELSE [calls |-> <<"create_video">>, next |-> "done",
        result |-> VideoSuccess]

VgIdle ==
  /\ vg_pc = "idle"
  /\ vg_in = [image_exists |-> FALSE, news_topic |-> <<>>]
  /\ vg_env = [generate_news_script |-> "ok", analyze_script_timing |-> "ok",
               generate_speech |-> "ok", get_audio_duration |-> "ok",
               create_video |-> "ok", remove |-> "ok"]
  /\ vg_calls = <<>>
  /\ vg_result = None

VgInit ==
  /\ vg_pc = "validate"
  /\ vg_in \in VideoInputs
  /\ vg_env \in CollaboratorOutcomes
  /\ vg_calls = <<>>
  /\ vg_result = None

VgFrame ==
  UNCHANGED <<cvs_vars, mic_vars, tts_vars, sg_vars, rec_vars,
              q_vars, pp_vars, mon_vars, ui_vars,
              cl_vars, pv_vars, cm_vars, sub_vars>>

Validate ==
  /\ vg_pc = "validate"
  /\ LET v == ValidateInputs(vg_in)
     IN  /\ vg_pc' = v.next
         /\ vg_result' = v.result
  /\ UNCHANGED <<vg_in, vg_env, vg_calls>>
  /\ VgFrame

GenerateScript ==
  /\ vg_pc = "script"
  /\ LET st == ScriptStep(vg_env)
     IN  /\ vg_pc' = st.next
         /\ vg_calls' = vg_calls \o st.calls
         /\ vg_result' = st.result
  /\ UNCHANGED <<vg_in, vg_env>>
  /\ VgFrame

GenerateVoiceover ==
  /\ vg_pc = "voiceover"
  /\ LET st == VoiceoverStep(vg_env)
     IN  /\ vg_pc' = st.next
         /\ vg_calls' = vg_calls \o st.calls
         /\ vg_result' = st.result
  /\ UNCHANGED <<vg_in, vg_env>>
  /\ VgFrame

ComposeVideo ==
  /\ vg_pc = "compose"
  /\ LET st == ComposeStep(vg_env)
     IN  /\ vg_pc' = st.next
         /\ vg_calls' = vg_calls \o st.calls
         /\ vg_result' = st.result
  /\ UNCHANGED <<vg_in, vg_env>>
  /\ VgFrame

VgNext == Validate \/ GenerateScript \/ GenerateVoiceover \/ ComposeVideo

\* =====================================================================
\* VideoComposer._create_subtitle_clips
\* =====================================================================
\* A text is a list of tokens: 0 is a run of white space, a positive number
\* is a word.  duration comes in half seconds; times are kept in units of
\* 1 / (2 * len(words)) seconds, in which i / words_per_second is
\* i * duration, segment_duration 3.5 s is 7 * len(words) and the video
\* lasts duration * len(words).

\* most words in a script
MaxWords == 4
\* longest video, in half seconds
MaxHalfSeconds == 30

\* Config.VIDEO_DURATION_BUFFER, in half seconds: create_video passes
\* audio_clip.duration + VIDEO_DURATION_BUFFER
VIDEO_DURATION_BUFFER == 2

\* the words 1..n with white space between them, and around them when padded
RECURSIVE Spaced(_, _)
Spaced(n, k) ==
  IF k > n THEN <<>>
  ELSE IF k = n THEN <<k>>
  ELSE <<k, 0>> \o Spaced(n, k + 1)

SubTexts ==
  { (IF pad THEN <<0>> ELSE <<>>) \o Spaced(n, 1) \o (IF pad THEN <<0>> ELSE <<>>) :
      n \in 0..MaxWords, pad \in BOOLEAN }

\* text.split()
Split(text) == SelectSeq(text, LAMBDA t : t # 0)

\* int(words_per_second * segment_duration), with
\* words_per_second = len(words) / duration and segment_duration = 3.5
WordsPerSegment(n, duration) == (7 * n) \div duration

\* the loop for i in range(0, len(words), words_per_segment), from i on
RECURSIVE Segments(_, _, _, _)
Segments(words, i, step, duration) ==
  IF i >= Len(words) THEN <<>>
  ELSE LET n          == Len(words)
           start_time == i * duration
           end_time   == Min(start_time + 7 * n, duration * n)
       IN  <<[words |-> SubSeq(words, i + 1, Min(i + step, n)),
              start |-> start_time, end |-> end_time]>>
           \o Segments(words, i + step, step, duration)

\* _create_subtitle_clips: range() raises ValueError on a step of zero
_create_subtitle_clips(text, duration) ==
  LET words == Split(text)
      step  == WordsPerSegment(Len(words), duration)
  IN  IF step = 0
      THEN [error |-> "ValueError", segments |-> <<>>]
      ELSE [error |-> "none",
            segments |-> Segments(words, 0, step, duration)]

NoSegments == [error |-> "none", segments |-> <<>>]

SubIdle ==
  /\ sub_pc = "idle"
  /\ sub_text = <<>>
  /\ sub_duration = VIDEO_DURATION_BUFFER
  /\ sub_result = NoSegments

SubInit ==
  /\ sub_pc = "call"
  /\ sub_text \in SubTexts
  /\ sub_duration \in VIDEO_DURATION_BUFFER..MaxHalfSeconds
  /\ sub_result = NoSegments

CreateSubtitleClips ==
  /\ sub_pc = "call"
  /\ sub_pc' = "done"
  /\ sub_result' = _create_subtitle_clips(sub_text, sub_duration)
  /\ UNCHANGED <<sub_text, sub_duration>>
  /\ UNCHANGED <<cvs_vars, mic_vars, tts_vars, sg_vars, rec_vars,
                 q_vars, pp_vars, mon_vars, ui_vars,
                 cl_vars, pv_vars, cm_vars, vg_vars>>

SubNext == CreateSubtitleClips

\* =====================================================================
\* The program: one operation at a time, the others at rest
\* =====================================================================

InitSamples == CvsInit /\ MicIdle /\ TtsIdle /\ SgIdle /\ RecIdle
  /\ QIdle /\ PpIdle /\ MonIdle /\ UiIdle
  /\ ClIdle /\ PvIdle /\ CmIdle /\ VgIdle /\ SubIdle

SpecSamples == InitSamples /\ [][CvsNext]_vars

InitMics == CvsIdle /\ MicInit /\ TtsIdle /\ SgIdle /\ RecIdle
  /\ QIdle /\ PpIdle /\ MonIdle /\ UiIdle
  /\ ClIdle /\ PvIdle /\ CmIdle /\ VgIdle /\ SubIdle

SpecMics == InitMics /\ [][MicNext]_vars

InitTTS == CvsIdle /\ MicIdle /\ TtsInit /\ SgIdle /\ RecIdle
  /\ QIdle /\ PpIdle /\ MonIdle /\ UiIdle
  /\ ClIdle /\ PvIdle /\ CmIdle /\ VgIdle /\ SubIdle

SpecTTS == InitTTS /\ [][TtsNext]_vars

InitScript == CvsIdle /\ MicIdle /\ TtsIdle /\ SgInit /\ RecIdle
  /\ QIdle /\ PpIdle /\ MonIdle /\ UiIdle
  /\ ClIdle /\ PvIdle /\ CmIdle /\ VgIdle /\ SubIdle

SpecScript == InitScript /\ [][SgNext]_vars

InitRecord == CvsIdle /\ MicIdle /\ TtsIdle /\ SgIdle /\ RecInit
  /\ QIdle /\ PpIdle /\ MonIdle /\ UiIdle
  /\ ClIdle /\ PvIdle /\ CmIdle /\ VgIdle /\ SubIdle

SpecRecord == InitRecord /\ [][RecNext]_vars

InitQuality == CvsIdle /\ MicIdle /\ TtsIdle /\ SgIdle /\ RecIdle
  /\ QInit /\ PpIdle /\ MonIdle /\ UiIdle
  /\ ClIdle /\ PvIdle /\ CmIdle /\ VgIdle /\ SubIdle

SpecQuality == InitQuality /\ [][QNext]_vars

InitExtract == CvsIdle /\ MicIdle /\ TtsIdle /\ SgIdle /\ RecIdle
  /\ QIdle /\ PpInit /\ MonIdle /\ UiIdle
  /\ ClIdle /\ PvIdle /\ CmIdle /\ VgIdle /\ SubIdle

SpecExtract == InitExtract /\ [][PpNext]_vars

\* the monitor with a caller that is free to call in any order
InitMonitor == CvsIdle /\ MicIdle /\ TtsIdle /\ SgIdle /\ RecIdle
  /\ QIdle /\ PpIdle /\ MonIdle /\ UiIdle
  /\ ClIdle /\ PvIdle /\ CmIdle /\ VgIdle /\ SubIdle

SpecMonitor == InitMonitor /\ [][MonNext]_vars

\* the voice tab, the monitor's loop and the recorder it calls
InitUI == CvsIdle /\ MicIdle /\ TtsIdle /\ SgIdle /\ RecIdle
  /\ QIdle /\ PpIdle /\ MonIdle /\ UiIdle
  /\ ClIdle /\ PvIdle /\ CmIdle /\ VgIdle /\ SubIdle

SpecUI == InitUI /\ [][UiNext]_vars

\* create_voice_samples, then clone_voice_with_text on the directory it filled
InitCreateClone == CvsInit /\ MicIdle /\ TtsIdle /\ SgIdle /\ RecIdle
  /\ QIdle /\ PpIdle /\ MonIdle /\ UiIdle
  /\ ClIdle /\ PvIdle /\ CmIdle /\ VgIdle /\ SubIdle

SpecCreateClone == InitCreateClone /\ [][CreateCloneNext]_vars

InitClone == CvsIdle /\ MicIdle /\ TtsIdle /\ SgIdle /\ RecIdle
  /\ QIdle /\ PpIdle /\ MonIdle /\ UiIdle
  /\ ClInit /\ PvIdle /\ CmIdle /\ VgIdle /\ SubIdle

SpecClone == InitClone /\ [][ClNext]_vars

InitProviders == CvsIdle /\ MicIdle /\ TtsIdle /\ SgIdle /\ RecIdle
  /\ QIdle /\ PpIdle /\ MonIdle /\ UiIdle
  /\ ClIdle /\ PvInit /\ CmIdle /\ VgIdle /\ SubIdle

SpecProviders == InitProviders /\ [][PvNext]_vars

InitConfig == CvsIdle /\ MicIdle /\ TtsIdle /\ SgIdle /\ RecIdle
  /\ QIdle /\ PpIdle /\ MonIdle /\ UiIdle
  /\ ClIdle /\ PvIdle /\ CmInit /\ VgIdle /\ SubIdle

SpecConfig == InitConfig /\ [][CmNext]_vars

InitVideo == CvsIdle /\ MicIdle /\ TtsIdle /\ SgIdle /\ RecIdle
  /\ QIdle /\ PpIdle /\ MonIdle /\ UiIdle
  /\ ClIdle /\ PvIdle /\ CmIdle /\ VgInit /\ SubIdle

SpecVideo == InitVideo /\ [][VgNext]_vars

InitSubtitles == CvsIdle /\ MicIdle /\ TtsIdle /\ SgIdle /\ RecIdle
  /\ QIdle /\ PpIdle /\ MonIdle /\ UiIdle
  /\ ClIdle /\ PvIdle /\ CmIdle /\ VgIdle /\ SubInit

SpecSubtitles == InitSubtitles /\ [][SubNext]_vars

Init ==
  \/ InitSamples \/ InitMics \/ InitTTS \/ InitScript \/ InitRecord
  \/ InitQuality \/ InitExtract \/ InitMonitor \/ InitUI
  \/ InitClone \/ InitProviders \/ InitConfig \/ InitVideo \/ InitSubtitles

Next ==
  \/ CvsNext \/ MicNext \/ TtsNext \/ SgNext \/ RecNext
  \/ QNext \/ PpNext \/ MonNext \/ UiNext
  \/ CloneFromSamples \/ ClNext \/ PvNext \/ CmNext \/ VgNext \/ SubNext

Spec == Init /\ [][Next]_vars

\* =====================================================================
\* Properties of create_voice_samples
\* =====================================================================

CvsReturned == cvs_pc = "done" /\ result.success

\* the 0-based indices of the chunks whose duration lies within the limits,
\* read off the input and not off the filter loop
ValidIndices ==
  { i \in 0..(Len(chunks) - 1) :
      /\ chunks[i + 1].len >= min_duration
      /\ chunks[i + 1].len <= max_duration }

BestPaths == { result.best_samples[k].path : k \in 1..Len(result.best_samples) }

\* C1: every sample create_voice_samples returns or counts is a chunk of the
\* input, with that chunk's duration, and its duration d satisfies
\* min_duration <= d <= max_duration.
C1_DurationsWithinLimits ==
  CvsReturned =>
    /\ result.total_samples = Len(valid_samples)
    /\ \A s \in Range(valid_samples) \cup Range(result.best_samples) :
         /\ s.path + 1 \in 1..Len(chunks)
         /\ s.duration = chunks[s.path + 1].len
         /\ min_duration <= s.duration
         /\ s.duration <= max_duration

\* the filter has kept a sample and has turned away a chunk that is too
\* short and a chunk that is too long
C1_Witness ==
  /\ CvsReturned
  /\ result.best_samples # <<>>
  /\ \E c \in Range(chunks) : c.len < min_duration
  /\ \E c \in Range(chunks) : c.len > max_duration

\* C2: with n chunks passing the duration filter, total_samples = n and
\* len(best_samples) = min(10, n); best_samples never holds more than 10.
C2_CappedAtTen ==
  CvsReturned =>
    /\ result.total_samples = Cardinality(ValidIndices)
    /\ Len(result.best_samples) = Min(10, Cardinality(ValidIndices))
    /\ Len(result.best_samples) <= 10

\* more than ten chunks passed the filter
C2_Witness ==
  /\ CvsReturned
  /\ Cardinality(ValidIndices) > 10
  /\ Len(result.best_samples) = 10

\* C3: best_samples is in non-increasing order of quality, and no valid chunk
\* left out of it has a quality strictly greater than a sample that was kept.
C3_RankedTopN ==
  CvsReturned =>
    /\ \A k \in 1..(Len(result.best_samples) - 1) :
         result.best_samples[k].quality >= result.best_samples[k + 1].quality
    /\ \A i \in ValidIndices \ BestPaths :
         \A b \in Range(result.best_samples) :
           _assess_chunk_quality(chunks[i + 1]) <= b.quality

\* samples of different qualities were kept, and a valid chunk of a lower
\* quality was left out
C3_Witness ==
  /\ CvsReturned
  /\ \E a, b \in Range(result.best_samples) : a.quality > b.quality
  /\ \E i \in ValidIndices \ BestPaths :
       \E b \in Range(result.best_samples) :
         _assess_chunk_quality(chunks[i + 1]) < b.quality

\* C4: when no chunk survives the duration filter, create_voice_samples
\* returns a result with success = false.
C4_NoSamplesIsFailure ==
  (cvs_pc = "done" /\ fault = "none" /\ ValidIndices = {}) =>
    result.success = FALSE

\* C5: with a speech-to-text model loaded, transcriptions has one entry per
\* best sample, in the same order; the entry of a sample whose transcription
\* raised has text "" and confidence 0.0; the call succeeds and no sample is
\* dropped from best_samples.
C5_TranscriptionFailureKept ==
  (cvs_pc = "done" /\ fault = "none" /\ whisper_model # None) =>
    /\ result.success
    /\ Len(result.best_samples) = Min(10, Cardinality(ValidIndices))
    /\ Len(result.transcriptions) = Len(result.best_samples)
    /\ \A k \in 1..Len(result.best_samples) :
         LET b == result.best_samples[k]
             t == result.transcriptions[k]
         IN  /\ t.path = b.path
             /\ stt[b.path % TransPatLen].kind = "raise" =>
                  (t.text = <<>> /\ t.confidence = 0)

\* a transcription raised for one best sample and succeeded for another
C5_Witness ==
  /\ cvs_pc = "done" /\ fault = "none" /\ whisper_model # None
  /\ \E a, b \in Range(result.best_samples) :
       /\ stt[a.path % TransPatLen].kind = "raise"
       /\ stt[b.path % TransPatLen].kind = "ok"

\* =====================================================================
\* Properties of get_available_microphones
\* =====================================================================

\* the indices of the devices with an input channel, read off the table
InputIndices ==
  { i \in 0..(Len(devices) - 1) : devices[i + 1].maxInputChannels >= 1 }

\* C6: get_available_microphones returns a list in every case: exactly the
\* devices with at least one input channel, in index order, when the host
\* audio subsystem works (the empty list when there is none), and the empty
\* list when the host audio subsystem fails at any point.
C6_MicrophonesSoftFail ==
  mic_pc = "done" =>
    IF mic_fault.at = "none"
    THEN /\ { microphones[k].index : k \in 1..Len(microphones) } = InputIndices
         /\ Len(microphones) = Cardinality(InputIndices)
         /\ \A k \in 1..(Len(microphones) - 1) :
              microphones[k].index < microphones[k + 1].index
         /\ \A k \in 1..Len(microphones) :
              LET d == devices[microphones[k].index + 1]
              IN  /\ microphones[k].name = d.name
                  /\ microphones[k].channels = d.maxInputChannels
                  /\ microphones[k].sample_rate = d.defaultSampleRate
    ELSE microphones = <<>>

\* the host failed after an input device had been collected, and the list
\* returned is empty
C6_Witness ==
  /\ mic_pc = "done"
  /\ mic_fault.at \in {"info", "terminate"}
  /\ \E i \in InputIndices : mic_fault.at = "info" => i < mic_fault.index
  /\ microphones = <<>>

\* =====================================================================
\* Properties of generate_speech
\* =====================================================================

\* C7: with voice_provider "auto", the backend generate_speech uses is the
\* first available one in the order cloned, ElevenLabs, Azure, basic.
C7_AutoPreferenceOrder ==
  (tts_pc = "done" /\ voice_provider = "auto") =>
    /\ tts_calls # <<>>
    /\ LET used == tts_calls[1]
           clonedAvail == voice_cloner_available
                            /\ voice_samples_dir \notin {None, ""}
       IN  /\ clonedAvail => used = "cloned"
           /\ (~clonedAvail /\ elevenlabs_available) => used = "elevenlabs"
           /\ (~clonedAvail /\ ~elevenlabs_available /\ azure_available)
                => used = "azure"
           /\ (~clonedAvail /\ ~elevenlabs_available /\ ~azure_available)
                => used = "basic"

\* auto selection took ElevenLabs while Azure was available too
C7_Witness ==
  /\ tts_pc = "done" /\ voice_provider = "auto"
  /\ voice_samples_dir = None
  /\ elevenlabs_available /\ azure_available
  /\ tts_calls[1] = "elevenlabs"

\* C9: whenever synthesis with the selected provider (cloned, ElevenLabs or
\* Azure) fails, generate_speech falls back to the basic backend instead of
\* returning the failure.
C9_FallbackToBasic ==
  (/\ tts_pc = "done"
   /\ tts_calls[1] \in {"cloned", "elevenlabs", "azure"}
   /\ backend[tts_calls[1]] # "ok")
    => (/\ Len(tts_calls) = 2
        /\ tts_calls[2] = "basic"
        /\ tts_result = (backend.basic = "ok"))

\* =====================================================================
\* Properties of generate_news_script
\* =====================================================================

ApiFailed == sg_pc = "done" /\ api.kind # "text"

\* C8: whenever the API call fails, generate_news_script returns the
\* fallback script: a non-empty text that contains the topic and that is the
\* text returned on every earlier failure for the same topic.
C8_FallbackOnApiFailure ==
  ApiFailed =>
    /\ script # <<>>
    /\ topic \in Range(script)
    /\ fallback_seen[topic].text = script

\* the API raised for a topic for which it had failed before, in a call with
\* another target length
C8_Witness ==
  /\ ApiFailed
  /\ api.kind = "raise"
  /\ fallback_seen[topic].target_words # TargetWords(duration_seconds)
  /\ fallback_seen[topic].text = script

\* =====================================================================
\* Properties of record_voice_from_microphone and test_microphone
\* =====================================================================

\* C10: however record_voice_from_microphone or test_microphone ends, the
\* input stream is closed and the audio host handle terminated when the call
\* returns.
C10_DeviceReleasedOnReturn ==
  rec_pc = "done" => (stream # "open" /\ pa # "live")

\* the capture loop of record_voice_from_microphone ran to its end
LoopCompleted ==
  /\ rec_op = "record"
  /\ \/ rec_pc = "released"
     \/ rec_pc = "done" /\ rec_fault.at \in {"none", "stop", "save", "process"}

\* C17: when the capture loop of a recording of D seconds runs to its end, the
\* captured samples (frames of 1024 samples at 44100 Hz) differ from D seconds
\* by less than one frame.
C17_DurationWithinOneFrame ==
  LoopCompleted =>
    /\ frames * Chunk - rec_duration * Rate < Chunk
    /\ rec_duration * Rate - frames * Chunk < Chunk

C17_Witness ==
  /\ LoopCompleted
  /\ rec_pc = "done"
  /\ rec_result = [success |-> TRUE]
  /\ rec_duration >= 2
  /\ frames > 0

\* =====================================================================
\* Properties of the quality scores and of the preprocessing
\* =====================================================================

\* C19: an input that is all silence fails with EmptyAfterTrim; it is never
\* returned or written as a success.
C19_SilenceFailsEmptyAfterTrim ==
  ( /\ pp_pc = "done"
    /\ pp_input.silent
    /\ pp_lib.load = "ok"
    /\ pp_lib.write = "ok" ) =>
    /\ pp_result.success = FALSE
    /\ pp_result.error = "EmptyAfterTrim"
    /\ pp_written = 0 - 1

\* C20: every score returned by _assess_chunk_quality (hundredths) and by
\* _assess_audio_quality (units of 1/ScoreUnit) is a number of [0, 1].
C20_ScoresInUnitInterval ==
  q_pc = "done" =>
    /\ q_score.kind = "fin"
    /\ q_score.v >= 0
    /\ q_score.v <= (IF q_op = "chunk" THEN 100 ELSE ScoreUnit)

C20_Witness ==
  \/ /\ q_pc = "done" /\ q_op = "audio"
     /\ q_snr = Fin(60) /\ q_centroid = 11025
     /\ q_score = Fin(ScoreUnit)
  \/ /\ q_pc = "done" /\ q_op = "chunk"
     /\ q_chunk.rms = MaxLevel
     /\ q_score = Fin(100)

\* peak at full scale: some sample reaches 32768
FullScale == 10

\* C21: of two chunks with the same rms, the one whose peak is at full scale
\* scores lower than the one whose peak is below it; of two chunks with the
\* same peak, the one with the lower rms never scores higher.
C21_QuietOrClippedScoresLower ==
  (q_pc = "done" /\ q_op = "chunk") =>
    \A other \in ChunkLevels :
      /\ ( /\ other.rms = q_chunk.rms
           /\ q_chunk.peak >= FullScale
           /\ other.peak < FullScale )
         => q_score.v < _assess_chunk_quality(other)
      /\ (other.peak = q_chunk.peak /\ q_chunk.rms <= other.rms)
         => q_score.v <= _assess_chunk_quality(other)

\* =====================================================================
\* Properties of the Level Monitor and of the voice tab
\* =====================================================================

\* record_voice_from_microphone has been called and has not returned
CaptureRunning == rec_pc \in {"start", "reading", "released"}

C12_AtMostOneMonitor ==
  /\ monitor.loops <= 1
  /\ (last_call.op = "start" /\ last_call.was_active) =>
       /\ ~last_call.success
       /\ ~last_call.changed

C12_Witness ==
  /\ last_call.op = "start"
  /\ last_call.was_active
  /\ monitor.loops = 1

\* C13: while monitoring, a run in which the gain or the selected microphone
\* changed leaves a monitor running with the new gain and the new device.
C13_ChangeRestartsMonitor ==
  [][ (ss.audio_monitoring /\ monitor.loops > 0) =>
        /\ widgets'.gain # widgets.gain =>
             (monitor'.loops > 0 /\ monitor'.gain = widgets'.gain)
        /\ widgets'.mic # widgets.mic =>
             (monitor'.loops > 0 /\ monitor'.device = widgets'.mic) ]_vars

\* C14: audio_monitoring is set only while a monitor that started is running.
C14_FlagOnlyWhileRunning ==
  ss.audio_monitoring => monitor.loops > 0

\* C15: a stop_audio_monitoring call leaves no monitor running and does not
\* raise; made with no monitor running (a second call in a row, or none ever
\* started) it changes nothing.
C15_StopIdempotent ==
  last_call.op = "stop" =>
    /\ monitor.loops = 0
    /\ last_call.error = ""
    /\ ~last_call.was_active => ~last_call.changed

C15_Witness ==
  /\ last_call.op = "stop"
  /\ last_call.prev_op = "stop"
  /\ monitor.level # ZeroLevel

\* the snapshots of single frames under a gain
ValidLevels(gain) == {ZeroLevel} \cup {Snapshot(frame, gain) : frame \in Frames}

C18_EarlyStopKeepsFrames ==
  ( /\ ss.recording_state = "processing"
    /\ rec_pc = "done"
    /\ rec_fault.at = "none"
    /\ elapsed > 0
    /\ elapsed < RecordDuration * TicksPerSecond ) =>
    (rec_result.success /\ frames > 0)

\* =====================================================================
\* Properties of clone_voice_with_text
\* =====================================================================

\* C22: after create_voice_samples(audio, dir) and then
\* clone_voice_with_text(dir, ...), the reference samples loaded are exactly
\* the files of best_samples, never a sample that was ranked out.
C22_CloneLoadsBestSamples ==
  (cl_pc = "done" /\ cvs_pc = "done" /\ cl_lib = "none") =>
    reference_samples = ExportedFiles(result.best_samples)

\* C23: on a samples directory that holds no .wav file,
\* clone_voice_with_text returns the failure "No voice samples found",
\* loads nothing and writes no output.
C23_NoWavFails ==
  (cl_pc = "done" /\ cl_lib # "listdir" /\ ~(\E f \in cl_dir : f.ext = "wav")) =>
    /\ cl_result = [success |-> FALSE, error |-> "No voice samples found"]
    /\ ~cl_written
    /\ reference_samples = {}

C23_Witness ==
  /\ cl_pc = "done"
  /\ cl_lib = "load"
  /\ cl_dir = {[name |-> 0, ext |-> "WAV"], [name |-> 1, ext |-> "txt"]}
  /\ cl_result = [success |-> FALSE, error |-> "No voice samples found"]

\* =====================================================================
\* Properties of get_available_providers
\* =====================================================================

ProviderOrder == <<"cloned", "elevenlabs", "azure", "basic">>

\* C24: whatever keys are configured, the list get_available_providers
\* returns starts with "cloned", ends with "basic" and keeps the order
\* cloned, elevenlabs, azure, basic.
C24_ProvidersOrdered ==
  pv_pc = "done" =>
    /\ Head(providers) = "cloned"
    /\ providers[Len(providers)] = "basic"
    /\ providers = SelectSeq(ProviderOrder, LAMBDA x : x \in Range(providers))

C24_Witness ==
  /\ pv_pc = "done"
  /\ providers = <<"cloned", "elevenlabs", "azure", "basic">>

\* =====================================================================
\* Properties of the API key configuration
\* =====================================================================

\* C25: after clear_all_keys, whatever keys were saved through the setup UI
\* before, no key of openai, elevenlabs or azure is left in the session
\* state or in the saved configuration.
C25_ClearRemovesUiKeys ==
  cm_ret.op = "clear" =>
    \A service \in UiServices :
      /\ ~session_state[SessionKey(service)].set
      /\ ~session_config[SessionKey(service)].set

\* C26: get_api_key returns the session value when the session holds one
\* for the service, else the saved value when the saved configuration holds
\* one, else the value of the environment (or none).
C26_SessionThenSavedThenEnvironment ==
  cm_ret.op = "get" =>
    LET k == SessionKey(cm_ret.service)
    IN  /\ session_state[k].set => cm_ret.value = session_state[k]
        /\ (~session_state[k].set /\ session_config[k].set)
             => cm_ret.value = session_config[k]
        /\ (~session_state[k].set /\ ~session_config[k].set)
             => cm_ret.value = environ[k]

C26_Witness ==
  /\ cm_ret.op = "get"
  /\ cm_ret.service = "openai"
  /\ cm_ret.value.id = 1
  /\ session_config["OPENAI_API_KEY"].id = 3
  /\ config_file.state = "ok"
  /\ environ["OPENAI_API_KEY"].set

\* C29: a key saved through the setup UI for a service is the key the next
\* validate_api_keys checks for that service and the key the next
\* Config.update_from_manager loads for it.
C29_SavedKeyIsReadBack ==
  [][ /\ (cm_ret.op = "set" /\ cm_ret'.op = "validate")
         => cm_ret'.checked[cm_ret.service].key = cm_ret.value
      /\ (cm_ret.op = "set" /\ cm_ret'.op = "update")
         => config_keys'[cm_ret.service] = cm_ret.value ]_vars

\* =====================================================================
\* Properties of generate_video
\* =====================================================================

StepOrder == <<"generate_news_script", "analyze_script_timing",
               "generate_speech", "get_audio_duration", "create_video">>

StepError(outcome, call, msg) == IF outcome = "raise" THEN call ELSE msg

\* C27: generate_video always returns a result; its collaborators are called
\* in the order script, voiceover, compose; a missing image or a blank topic
\* fails before any of them is called; a step that fails ends the run with
\* success false and that step's error, no later step being run; success is
\* returned only after all three steps succeeded.
C27_StepsInOrderStopAtFailure ==
  /\ vg_calls = Take(StepOrder, Len(vg_calls))
  /\ vg_pc \in {"idle", "validate", "script", "voiceover", "compose", "done"}
  /\ vg_pc = "done" =>
       LET valid  == vg_in.image_exists /\ Strip(vg_in.news_topic) # <<>>
           e      == vg_env
           step1  == e.generate_news_script = "ok"
           step2  == e.generate_speech = "ok"
           step3  == e.create_video = "ok"
       IN  /\ vg_result.success \in BOOLEAN
           /\ ~valid => (~vg_result.success /\ vg_calls = <<>>)
           /\ (valid /\ ~step1) =>
                /\ vg_result = [success |-> FALSE,
                                error |-> StepError(e.generate_news_script,
                                            "generate_news_script",
                                            "Failed to generate script")]
                /\ vg_calls = Take(StepOrder, 1)
           /\ (valid /\ step1 /\ e.analyze_script_timing = "ok" /\ ~step2) =>
                /\ vg_result = [success |-> FALSE,
                                error |-> StepError(e.generate_speech,
                                            "generate_speech",
                                            "Failed to generate voiceover")]
                /\ vg_calls = Take(StepOrder, 3)
           /\ (valid /\ step1 /\ e.analyze_script_timing = "ok" /\ step2
                 /\ e.get_audio_duration = "ok" /\ ~step3) =>
                /\ vg_result = [success |-> FALSE,
                                error |-> StepError(e.create_video,
                                            "create_video",
                                            "Failed to create video")]
                /\ vg_calls = StepOrder
           /\ vg_result.success =>
                (valid /\ step1 /\ step2 /\ step3 /\ vg_calls = StepOrder)

C27_Witness ==
  /\ vg_pc = "done"
  /\ vg_env.generate_speech = "falsy"
  /\ vg_calls = <<"generate_news_script", "analyze_script_timing",
                  "generate_speech">>
  /\ vg_result = [success |-> FALSE, error |-> "Failed to generate voiceover"]

\* =====================================================================
\* Properties of _create_subtitle_clips
\* =====================================================================

\* the words of the segments, one after the other
RECURSIVE SegmentWords(_)
SegmentWords(segs) ==
  IF segs = <<>> THEN <<>> ELSE Head(segs).words \o SegmentWords(Tail(segs))

\* the segments partition the words, in order and inside the video
Partitions(segs, text, duration) ==
  /\ SegmentWords(segs) = Split(text)
  /\ \A k \in 1..(Len(segs) - 1) : segs[k].start <= segs[k + 1].start
  /\ \A k \in 1..Len(segs) : segs[k].end <= duration * Len(Split(text))

\* C30: on a script of at least one word _create_subtitle_clips returns
\* without an error, and its segments hold every word of the script exactly
\* once and in order, start at non-decreasing times and never end after the
\* video.
C30_SubtitlesPartitionScript ==
  (sub_pc = "done" /\ Split(sub_text) # <<>>) =>
    /\ sub_result.error = "none"
    /\ Partitions(sub_result.segments, sub_text, sub_duration)

\* =====================================================================
\* Properties of the recording state of the voice tab
\* =====================================================================

RecordingStates == {"idle", "recording", "processing"}

RecordingMoves == { <<"idle", "recording">>, <<"recording", "processing">>,
                    <<"processing", "idle">> }

\* C28: the recording state is idle, recording or processing and only moves
\* idle -> recording -> processing -> idle; the run that makes the recording
\* call leaves the state idle, whether the call succeeded, returned a
\* failure or raised.
C28_ProcessingReturnsToIdle ==
  [][ /\ ss'.recording_state \in RecordingStates
      /\ ss'.recording_state # ss.recording_state
           => <<ss.recording_state, ss'.recording_state>> \in RecordingMoves
      /\ ( /\ ss.recording_state = "processing"
           /\ shown'.notice \in {"recorded", "recording failed", "exception"} )
           => ss'.recording_state = "idle" ]_vars

====
